---- MODULE Spec2Model ----
(***************************************************************************)
(* State-machine model of GovernanceEngine                                 *)
(* (src/governance/governance_engine.py).                                  *)
(*                                                                         *)
(* Time is counted in whole hours.  A Python Optional[T] is modelled as a  *)
(* sequence of length at most one: None is <<>>, a value x is <<x>>.       *)
(* Every raise ValueError(...) of the source is modelled by the outcome    *)
(* field of the variable result, which names the raise site.               *)
(***************************************************************************)
EXTENDS Integers, Sequences, FiniteSets, TLC

VARIABLES
    now,             \* datetime.now(timezone.utc), in hours
    overrides,       \* self.overrides: the override ledger, in insertion order
    canary_signals,  \* self.canary_signals: domain -> CanarySignal
    safety_budget,   \* self.safety_budget: SafetyBudgetStatus
    disk,            \* governance_state.json: <<>> when absent, else <<snapshot>>
    result,          \* what the last call returned or raised
    window_issued,   \* history: overrides issued since engine start or the last lift
    pc               \* thread -> where it stands inside request_override, with its locals

vars ==
    <<now, overrides, canary_signals, safety_budget, disk, result, window_issued,
      pc>>

None == <<>>
Some(x) == <<x>>

----------------------------------------------------------------------------
(* Configuration constants *)

OverrideAuthority == {"security-team", "on-call", "ci-system"}
OverrideType == {"permanent", "emergency", "testing"}

EMERGENCY_MAX_HOURS == 24
TESTING_MAX_HOURS == 1

OVERRIDE_MAX_DURATION(override_type) ==
    CASE override_type = "permanent" -> None
      [] override_type = "emergency" -> Some(EMERGENCY_MAX_HOURS)
      [] override_type = "testing" -> Some(TESTING_MAX_HOURS)

LIMIT_SUSPICIOUS_ON_TRUSTED == 0
LIMIT_OVERRIDES_PER_WINDOW == 3
LIMIT_CANARY_FAILURES == 5

SAFETY_BUDGET_LIMITS ==
    [suspicious_on_trusted |-> LIMIT_SUSPICIOUS_ON_TRUSTED,
     overrides_per_window |-> LIMIT_OVERRIDES_PER_WINDOW,
     canary_failures |-> LIMIT_CANARY_FAILURES]

CANARY_MIN_PASSES == 5
CANARY_MIN_SAMPLE_SIZE == 100

----------------------------------------------------------------------------
(* Bounds of the model and the inputs the operations are called with *)

MaxSize == 3          \* Spec: the clock, ledger, canary runs and counters add up to this
LedgerTime == 1       \* SpecLedger: the clock stops here
LedgerOverrides == 1  \* SpecLedger: no override is appended to a ledger this long
LedgerEvents == 1     \* SpecLedger: suspicious_on_trusted events recorded
BudgetOverrides == 5  \* SpecBudget: no override is appended to a ledger this long
BudgetExcess == 2     \* SpecBudget: no event is recorded on a counter this far over its limit
CanaryRuns == 6       \* SpecCanary: canary results recorded over all domains
ExpiryTime == 2       \* SpecExpiry: the clock stops here
ThreadOverrides == 5  \* SpecThreads: no request is begun with this many overrides in the ledger, issued or under way
CalibrationOverrides == 2  \* SpecCalibration: no override is appended to a ledger this long
CalibrationEvents == 1     \* SpecCalibration: suspicious_on_trusted events recorded
VerifierEvents == 1        \* SpecVerifier: suspicious_on_trusted events recorded
PromotionRuns == 5    \* SpecPromotion: canary results recorded over all domains
LifecycleOverrides == 2  \* SpecLifecycle: no override is appended to a ledger this long
LifecycleTime == 2     \* SpecLifecycle: the clock stops here
LifecycleEvents == 1   \* SpecLifecycle: suspicious_on_trusted events recorded
FrozenOverrides == 1   \* SpecFrozen: no override is appended to a ledger this long
FrozenRuns == 2        \* SpecFrozen: canary results recorded
FrozenEvents == 1      \* SpecFrozen: no event is recorded on a counter this high
RaceOverrides == 2     \* SpecRace: no request is begun with this many overrides in the ledger or in flight
RaceEvents == 1        \* SpecRace: suspicious_on_trusted events recorded
RestartSize == 3       \* SpecRestart: the clock, ledger, canary runs and counters add up to this at most
FailureRuns == 6       \* SpecFailure: canary results recorded
FailureEvents == 1     \* SpecFailure: suspicious_on_trusted events recorded
LoadOverrides == 2    \* SpecLoad: no override is appended to a ledger this long
LoadEvents == 2       \* SpecLoad: suspicious_on_trusted events counted
SignalRuns == 3       \* SpecSignals: canary results recorded over all domains
ExpiryOverrides == 1  \* SpecExpiry: no override is appended to a ledger this long

Tickets == {None, Some(""), Some("T-1")}
Durations == {None, Some(0), Some(2), Some(25)}
DomainLists == {<<"example.com">>}
Reasons == {"incident"}
Approvers == {"alice"}
Domains == {"example.com", "bad.example"}
Verdicts == {"SAFE", "SUSPICIOUS", "PHISHING"}
SampleSizes == {1, 20, 100}
EventTypes == {"suspicious_on_trusted", "override", "canary_failure", "other"}
CalibrationStatuses == {"healthy", "degraded", "unknown", "stale"}

\* the three files verify_policy_consistency reads: None is a missing file,
\* Some(object) a file holding a JSON object, whose fields are what get()
\* returns (None for a key that is not there); a file whose content is not a
\* JSON object makes json.load or get raise and is not among them
ManifestVersions == {None, Some(""), Some("1"), Some("2")}
Manifests ==
    {None} \cup {Some([version |-> v, change_reason |-> c]) :
                    v \in ManifestVersions,
                    c \in {None, Some("quarterly review")}}
Snapshots ==
    {None} \cup {Some([_manifest_version |-> v]) :
                    v \in {None, Some("1"), Some("2")}}
CalibrationMetrics ==
    {None} \cup {Some([calibration_status |-> st]) :
                    st \in {None, Some("healthy"), Some("degraded")}}

Requests ==
    [override_type : OverrideType, authority : OverrideAuthority,
     affected_domains : DomainLists, reason : Reasons, approved_by : Approvers,
     review_ticket : Tickets, duration : Durations]

----------------------------------------------------------------------------
(* Data classes *)

\* Override.is_expired at clock value t
is_expired(o, t) ==
    IF o.expires_at = None THEN FALSE ELSE t > o.expires_at[1]

NewCanarySignal(domain) ==
    [domain |-> domain, test_runs |-> 0, passes |-> 0, failures |-> 0,
     sample_size |-> 0, last_run |-> None, last_verdict |-> None,
     consecutive_passes |-> 0]

\* a pass rate taken over the current streak and not over all runs
pass_rate_of_streak(s) ==
    IF s.test_runs = 0 THEN <<0, 1>>
    ELSE <<s.consecutive_passes, CANARY_MIN_PASSES>>

\* CanarySignal.pass_rate as the exact fraction <<numerator, denominator>>
pass_rate(s) ==
    IF s.test_runs = 0 THEN <<0, 1>> ELSE <<s.passes, s.test_runs>>

\* fraction r >= 1.0
RateAtLeastOne(r) == r[1] >= r[2]

\* has_sufficient_signal counting runs only
has_sufficient_signal_runs_only(s) ==
    s.test_runs >= CANARY_MIN_PASSES

has_sufficient_signal(s) ==
    /\ s.test_runs >= CANARY_MIN_PASSES
    /\ s.sample_size >= CANARY_MIN_SAMPLE_SIZE

is_promotable(s) ==
    /\ has_sufficient_signal(s)
    /\ s.consecutive_passes >= CANARY_MIN_PASSES
    /\ RateAtLeastOne(pass_rate(s))

is_budget_exceeded(b) ==
    [suspicious_on_trusted |->
        b.suspicious_on_trusted > SAFETY_BUDGET_LIMITS.suspicious_on_trusted,
     overrides_per_window |->
        b.overrides_used > SAFETY_BUDGET_LIMITS.overrides_per_window,
     canary_failures |->
        b.canary_failures > SAFETY_BUDGET_LIMITS.canary_failures]

----------------------------------------------------------------------------
(* State persistence *)

\* the snapshot _save_state writes for in-memory state (o, c, b) at time t;
\* its last_updated stamp, which _load_state never reads, is left out
save_state(o, c, b, t) ==
    Some([overrides |-> o, canary_signals |-> c, safety_budget |-> b])

reset_safety_budget(t) ==
    [window_start |-> t, suspicious_on_trusted |-> 0, overrides_used |-> 0,
     canary_failures |-> 0, is_frozen |-> FALSE, freeze_reason |-> None]

\* trigger_freeze forgetting to record the reason
trigger_freeze_no_reason(b, reason) ==
    [b EXCEPT !.is_frozen = TRUE]

\* the in-memory effect of _trigger_freeze on budget b
trigger_freeze(b, reason) ==
    [b EXCEPT !.is_frozen = TRUE, !.freeze_reason = Some(reason)]

Threads == {"t1", "t2"}

\* a thread that is in no call
Idle ==
    [at |-> "idle", req |-> None, expires_at |-> None, override |-> None,
     used |-> None, data |-> None, outcome |-> "none"]

Init ==
    /\ pc = [t \in Threads |-> Idle]
    /\ now = 0
    /\ overrides = <<>>
    /\ canary_signals = <<>>
    /\ safety_budget = reset_safety_budget(0)
    /\ disk = None
    /\ result = [op |-> "init", outcome |-> "ok", ret |-> None]
    /\ window_issued = 0

Returns(op, outcome, ret) ==
    result' = [op |-> op, outcome |-> outcome, ret |-> ret]

----------------------------------------------------------------------------
(* Override authority boundaries *)

Passed == [error |-> "ok", message |-> None]
Raised(error, message) == [error |-> error, message |-> Some(message)]

\* validate_authority letting any authority request an EMERGENCY override
validate_authority_any_emergency(override_type, authority, review_ticket) ==
    CASE override_type = "permanent" ->
            IF authority # "security-team"
            THEN Raised("authority",
                    <<"PERMANENT overrides require SECURITY_TEAM authority, got",
                      authority>>)
            ELSE IF review_ticket = None \/ review_ticket = Some("")
            THEN Raised("ticket",
                    <<"PERMANENT overrides require a review_ticket reference">>)
            ELSE Passed
      [] override_type = "emergency" -> Passed
      [] override_type = "testing" ->
            IF authority # "ci-system"
            THEN Raised("authority",
                    <<"TESTING overrides are for CI_SYSTEM only, got", authority>>)
            ELSE Passed

\* validate_authority testing "review_ticket is None" in place of
\* "not review_ticket"
validate_authority_none_only(override_type, authority, review_ticket) ==
    CASE override_type = "permanent" ->
            IF authority # "security-team"
            THEN Raised("authority",
                    <<"PERMANENT overrides require SECURITY_TEAM authority, got",
                      authority>>)
            ELSE IF review_ticket = None
            THEN Raised("ticket",
                    <<"PERMANENT overrides require a review_ticket reference">>)
            ELSE Passed
      [] override_type = "emergency" ->
            IF authority \notin {"security-team", "on-call"}
            THEN Raised("authority",
                    <<"EMERGENCY overrides require SECURITY_TEAM or ON_CALL, got",
                      authority>>)
            ELSE Passed
      [] override_type = "testing" ->
            IF authority # "ci-system"
            THEN Raised("authority",
                    <<"TESTING overrides are for CI_SYSTEM only, got", authority>>)
            ELSE Passed

\* Passed when _validate_authority returns, else the ValueError it raises;
\* "not review_ticket" holds of None and of the empty string
validate_authority(override_type, authority, review_ticket) ==
    CASE override_type = "permanent" ->
            IF authority # "security-team"
            THEN Raised("authority",
                    <<"PERMANENT overrides require SECURITY_TEAM authority, got",
                      authority>>)
            ELSE IF review_ticket = None \/ review_ticket = Some("")
            THEN Raised("ticket",
                    <<"PERMANENT overrides require a review_ticket reference">>)
            ELSE Passed
      [] override_type = "emergency" ->
            IF authority \notin {"security-team", "on-call"}
            THEN Raised("authority",
                    <<"EMERGENCY overrides require SECURITY_TEAM or ON_CALL, got",
                      authority>>)
            ELSE Passed
      [] override_type = "testing" ->
            IF authority # "ci-system"
            THEN Raised("authority",
                    <<"TESTING overrides are for CI_SYSTEM only, got", authority>>)
            ELSE Passed

\* calculate_expiration without the cap
calculate_expiration_uncapped(override_type, duration, t) ==
    LET max_duration == OVERRIDE_MAX_DURATION(override_type) IN
    IF max_duration = None THEN None
    ELSE LET d == IF duration = None THEN max_duration[1] ELSE duration[1]
         IN Some(t + d)

calculate_expiration(override_type, duration, t) ==
    LET max_duration == OVERRIDE_MAX_DURATION(override_type) IN
    IF max_duration = None THEN None
    ELSE LET d == IF duration = None THEN max_duration[1]
                  ELSE IF duration[1] > max_duration[1] THEN max_duration[1]
                  ELSE duration[1]
         IN Some(t + d)

\* ids are unique: a timestamp and 32 random bits; the model numbers them
generate_override_id == Len(overrides) + 1

\* request_override whose frozen check exempts the security team
request_override_security_exempt(req) ==
    /\ UNCHANGED <<pc, now, canary_signals>>
    /\ IF safety_budget.is_frozen /\ req.authority # "security-team"
       THEN /\ Returns("request_override", "frozen",
                       Some(<<"System is frozen:", safety_budget.freeze_reason>>))
            /\ UNCHANGED <<overrides, safety_budget, disk, window_issued>>
       ELSE LET valid == validate_authority(req.override_type, req.authority,
                                            req.review_ticket)
                expires_at == calculate_expiration(req.override_type,
                                                   req.duration, now)
            IN
            IF valid.error # "ok"
            THEN /\ Returns("request_override", valid.error, valid.message)
                 /\ UNCHANGED <<overrides, safety_budget, disk, window_issued>>
            ELSE IF is_budget_exceeded(safety_budget).overrides_per_window
            THEN LET b == trigger_freeze(safety_budget, "Override budget exceeded") IN
                 /\ safety_budget' = b
                 /\ disk' = save_state(overrides, canary_signals, b, now)
                 /\ Returns("request_override", "budget",
                            Some(<<"Override budget exceeded. System frozen.">>))
                 /\ UNCHANGED <<overrides, window_issued>>
            ELSE LET override ==
                        [override_id |-> generate_override_id,
                         override_type |-> req.override_type,
                         authority |-> req.authority,
                         created_at |-> now,
                         expires_at |-> expires_at,
                         affected_domains |-> req.affected_domains,
                         reason |-> req.reason,
                         approved_by |-> req.approved_by,
                         review_ticket |-> req.review_ticket,
                         is_active |-> TRUE]
                     b == [safety_budget EXCEPT !.overrides_used = @ + 1]
                 IN
                 /\ overrides' = Append(overrides, override)
                 /\ safety_budget' = b
                 /\ disk' = save_state(Append(overrides, override),
                                       canary_signals, b, now)
                 /\ Returns("request_override", "ok", Some(override))
                 /\ window_issued' = window_issued + 1

\* request_override counting the request before it validates it
request_override_count_first(req) ==
    /\ UNCHANGED <<pc, now, canary_signals>>
    /\ IF safety_budget.is_frozen
       THEN /\ Returns("request_override", "frozen",
                       Some(<<"System is frozen:", safety_budget.freeze_reason>>))
            /\ UNCHANGED <<overrides, safety_budget, disk, window_issued>>
       ELSE LET valid == validate_authority(req.override_type, req.authority,
                                            req.review_ticket)
                expires_at == calculate_expiration(req.override_type,
                                                   req.duration, now)
                b == [safety_budget EXCEPT !.overrides_used = @ + 1]
            IN
            IF is_budget_exceeded(safety_budget).overrides_per_window
            THEN LET f == trigger_freeze(safety_budget, "Override budget exceeded") IN
                 /\ safety_budget' = f
                 /\ disk' = save_state(overrides, canary_signals, f, now)
                 /\ Returns("request_override", "budget",
                            Some(<<"Override budget exceeded. System frozen.">>))
                 /\ UNCHANGED <<overrides, window_issued>>
            ELSE IF valid.error # "ok"
            THEN /\ safety_budget' = b
                 /\ disk' = save_state(overrides, canary_signals, b, now)
                 /\ Returns("request_override", valid.error, valid.message)
                 /\ UNCHANGED <<overrides, window_issued>>
            ELSE LET override ==
                        [override_id |-> generate_override_id,
                         override_type |-> req.override_type,
                         authority |-> req.authority,
                         created_at |-> now,
                         expires_at |-> expires_at,
                         affected_domains |-> req.affected_domains,
                         reason |-> req.reason,
                         approved_by |-> req.approved_by,
                         review_ticket |-> req.review_ticket,
                         is_active |-> TRUE]
                 IN
                 /\ overrides' = Append(overrides, override)
                 /\ safety_budget' = b
                 /\ disk' = save_state(Append(overrides, override),
                                       canary_signals, b, now)
                 /\ Returns("request_override", "ok", Some(override))
                 /\ window_issued' = window_issued + 1

\* request_override rejecting an exhausted budget without freezing
request_override_no_freeze(req) ==
    /\ UNCHANGED <<pc, now, canary_signals>>
    /\ IF safety_budget.is_frozen
       THEN /\ Returns("request_override", "frozen",
                       Some(<<"System is frozen:", safety_budget.freeze_reason>>))
            /\ UNCHANGED <<overrides, safety_budget, disk, window_issued>>
       ELSE LET valid == validate_authority(req.override_type, req.authority,
                                            req.review_ticket)
                expires_at == calculate_expiration(req.override_type,
                                                   req.duration, now)
            IN
            IF valid.error # "ok"
            THEN /\ Returns("request_override", valid.error, valid.message)
                 /\ UNCHANGED <<overrides, safety_budget, disk, window_issued>>
            ELSE IF is_budget_exceeded(safety_budget).overrides_per_window
            THEN LET b == safety_budget IN
                 /\ safety_budget' = b
                 /\ disk' = disk
                 /\ Returns("request_override", "budget",
                            Some(<<"Override budget exceeded. System frozen.">>))
                 /\ UNCHANGED <<overrides, window_issued>>
            ELSE LET override ==
                        [override_id |-> generate_override_id,
                         override_type |-> req.override_type,
                         authority |-> req.authority,
                         created_at |-> now,
                         expires_at |-> expires_at,
                         affected_domains |-> req.affected_domains,
                         reason |-> req.reason,
                         approved_by |-> req.approved_by,
                         review_ticket |-> req.review_ticket,
                         is_active |-> TRUE]
                     b == [safety_budget EXCEPT !.overrides_used = @ + 1]
                 IN
                 /\ overrides' = Append(overrides, override)
                 /\ safety_budget' = b
                 /\ disk' = save_state(Append(overrides, override),
                                       canary_signals, b, now)
                 /\ Returns("request_override", "ok", Some(override))
                 /\ window_issued' = window_issued + 1

request_override(req) ==
    /\ UNCHANGED <<pc, now, canary_signals>>
    /\ IF safety_budget.is_frozen
       THEN /\ Returns("request_override", "frozen",
                       Some(<<"System is frozen:", safety_budget.freeze_reason>>))
            /\ UNCHANGED <<overrides, safety_budget, disk, window_issued>>
       ELSE LET valid == validate_authority(req.override_type, req.authority,
                                            req.review_ticket)
                expires_at == calculate_expiration(req.override_type,
                                                   req.duration, now)
            IN
            IF valid.error # "ok"
            THEN /\ Returns("request_override", valid.error, valid.message)
                 /\ UNCHANGED <<overrides, safety_budget, disk, window_issued>>
            ELSE IF is_budget_exceeded(safety_budget).overrides_per_window
            THEN LET b == trigger_freeze(safety_budget, "Override budget exceeded") IN
                 /\ safety_budget' = b
                 /\ disk' = save_state(overrides, canary_signals, b, now)
                 /\ Returns("request_override", "budget",
                            Some(<<"Override budget exceeded. System frozen.">>))
                 /\ UNCHANGED <<overrides, window_issued>>
            ELSE LET override ==
                        [override_id |-> generate_override_id,
                         override_type |-> req.override_type,
                         authority |-> req.authority,
                         created_at |-> now,
                         expires_at |-> expires_at,
                         affected_domains |-> req.affected_domains,
                         reason |-> req.reason,
                         approved_by |-> req.approved_by,
                         review_ticket |-> req.review_ticket,
                         is_active |-> TRUE]
                     b == [safety_budget EXCEPT !.overrides_used = @ + 1]
                 IN
                 /\ overrides' = Append(overrides, override)
                 /\ safety_budget' = b
                 /\ disk' = save_state(Append(overrides, override),
                                       canary_signals, b, now)
                 /\ Returns("request_override", "ok", Some(override))
                 /\ window_issued' = window_issued + 1

\* revoke_override deactivating every override up to the one it was given
revoke_override_through(override_id) ==
    /\ UNCHANGED <<pc, now, canary_signals, safety_budget, window_issued>>
    /\ IF \E i \in DOMAIN overrides : overrides[i].override_id = override_id
       THEN LET i == CHOOSE j \in DOMAIN overrides :
                        overrides[j].override_id = override_id
                os == [k \in DOMAIN overrides |->
                         IF k <= i THEN [overrides[k] EXCEPT !.is_active = FALSE]
                         ELSE overrides[k]]
            IN
            /\ overrides' = os
            /\ disk' = save_state(os, canary_signals, safety_budget, now)
            /\ Returns("revoke_override", "ok", None)
       ELSE /\ Returns("revoke_override", "not_found",
                       Some(<<"Override not found:", override_id>>))
            /\ UNCHANGED <<overrides, disk>>

\* the ledger after get_active_overrides has demoted the expired entries
Demoted(os, t) ==
    [i \in DOMAIN os |->
        IF os[i].is_active /\ is_expired(os[i], t)
        THEN [os[i] EXCEPT !.is_active = FALSE] ELSE os[i]]

\* the list of the overrides flagged active, expired or not
Active_flag_only(os, t) ==
    SelectSeq(os, LAMBDA o : o.is_active)

\* the list get_active_overrides returns
Active(os, t) ==
    SelectSeq(os, LAMBDA o : o.is_active /\ ~is_expired(o, t))

get_active_overrides ==
    /\ overrides' = Demoted(overrides, now)
    /\ disk' = save_state(Demoted(overrides, now), canary_signals,
                          safety_budget, now)
    /\ Returns("get_active_overrides", "ok", Some(Active(overrides, now)))
    /\ UNCHANGED <<pc, now, canary_signals, safety_budget, window_issued>>

revoke_override(override_id) ==
    /\ UNCHANGED <<pc, now, canary_signals, safety_budget, window_issued>>
    /\ IF \E i \in DOMAIN overrides : overrides[i].override_id = override_id
       THEN LET i == CHOOSE j \in DOMAIN overrides :
                        /\ overrides[j].override_id = override_id
                        /\ \A k \in 1..(j - 1) :
                              overrides[k].override_id # override_id
                os == [overrides EXCEPT ![i].is_active = FALSE]
            IN
            /\ overrides' = os
            /\ disk' = save_state(os, canary_signals, safety_budget, now)
            /\ Returns("revoke_override", "ok", None)
       ELSE /\ Returns("revoke_override", "not_found",
                       Some(<<"Override not found:", override_id>>))
            /\ UNCHANGED <<overrides, disk>>

----------------------------------------------------------------------------
(* Canary promotion enforcement *)

SignalOf(domain) ==
    IF domain \in DOMAIN canary_signals THEN canary_signals[domain]
    ELSE NewCanarySignal(domain)

\* Recorded counting a SUSPICIOUS verdict as a failure too
Recorded_suspicious_fails(signal, verdict, sample_size, t) ==
    LET s == [signal EXCEPT !.test_runs = @ + 1,
                            !.sample_size = @ + sample_size,
                            !.last_run = Some(t),
                            !.last_verdict = Some(verdict)]
    IN IF verdict \in {"PHISHING", "SUSPICIOUS"}
       THEN [s EXCEPT !.failures = @ + 1, !.consecutive_passes = 0]
       ELSE [s EXCEPT !.passes = @ + 1, !.consecutive_passes = @ + 1]

\* Recorded keeping the streak when a PHISHING result comes in
Recorded_streak_kept(signal, verdict, sample_size, t) ==
    LET s == [signal EXCEPT !.test_runs = @ + 1,
                            !.sample_size = @ + sample_size,
                            !.last_run = Some(t),
                            !.last_verdict = Some(verdict)]
    IN IF verdict = "PHISHING"
       THEN [s EXCEPT !.failures = @ + 1]
       ELSE [s EXCEPT !.passes = @ + 1, !.consecutive_passes = @ + 1]

\* the signal after one more result has been recorded at time t
Recorded(signal, verdict, sample_size, t) ==
    LET s == [signal EXCEPT !.test_runs = @ + 1,
                            !.sample_size = @ + sample_size,
                            !.last_run = Some(t),
                            !.last_verdict = Some(verdict)]
    IN IF verdict = "PHISHING"
       THEN [s EXCEPT !.failures = @ + 1, !.consecutive_passes = 0]
       ELSE [s EXCEPT !.passes = @ + 1, !.consecutive_passes = @ + 1]

\* CanaryBudget testing the budget before it counts the failure
CanaryBudget_check_first(b, verdict) ==
    IF verdict = "PHISHING"
    THEN LET b1 == [b EXCEPT !.canary_failures = @ + 1] IN
         IF is_budget_exceeded(b).canary_failures
         THEN trigger_freeze(b1, "Canary failure budget exceeded")
         ELSE b1
    ELSE b

\* CanaryBudget forgetting the failures when a canary result passes
CanaryBudget_pass_clears(b, verdict) ==
    IF verdict = "PHISHING"
    THEN LET b1 == [b EXCEPT !.canary_failures = @ + 1] IN
         IF is_budget_exceeded(b1).canary_failures
         THEN trigger_freeze(b1, "Canary failure budget exceeded")
         ELSE b1
    ELSE [b EXCEPT !.canary_failures = 0]

\* the safety budget after a canary result with this verdict
CanaryBudget(b, verdict) ==
    IF verdict = "PHISHING"
    THEN LET b1 == [b EXCEPT !.canary_failures = @ + 1] IN
         IF is_budget_exceeded(b1).canary_failures
         THEN trigger_freeze(b1, "Canary failure budget exceeded")
         ELSE b1
    ELSE b

\* record_canary_result refusing to record while the system is frozen
record_canary_result_refuses_frozen(domain, verdict, sample_size) ==
    LET signal == Recorded(SignalOf(domain), verdict, sample_size, now)
        cs == [d \in DOMAIN canary_signals \cup {domain} |->
                  IF d = domain THEN signal ELSE canary_signals[d]]
        b == CanaryBudget(safety_budget, verdict)
    IN
    IF safety_budget.is_frozen
    THEN /\ Returns("record_canary_result", "frozen", None)
         /\ UNCHANGED <<pc, now, overrides, canary_signals, safety_budget,
                        disk, window_issued>>
    ELSE /\ canary_signals' = cs
         /\ safety_budget' = b
         /\ disk' = save_state(overrides, cs, b, now)
         /\ Returns("record_canary_result", "ok", Some(signal))
         /\ UNCHANGED <<pc, now, overrides, window_issued>>

record_canary_result(domain, verdict, sample_size) ==
    LET signal == Recorded(SignalOf(domain), verdict, sample_size, now)
        cs == [d \in DOMAIN canary_signals \cup {domain} |->
                  IF d = domain THEN signal ELSE canary_signals[d]]
        b == CanaryBudget(safety_budget, verdict)
    IN
    /\ canary_signals' = cs
    /\ safety_budget' = b
    /\ disk' = save_state(overrides, cs, b, now)
    /\ Returns("record_canary_result", "ok", Some(signal))
    /\ UNCHANGED <<pc, now, overrides, window_issued>>

\* the report check_promotion_eligibility returns
Eligibility(domain) ==
    IF domain \notin DOMAIN canary_signals
    THEN [eligible |-> FALSE, reason |-> "No signal data recorded",
          signal |-> None]
    ELSE LET signal == canary_signals[domain] IN
         IF ~has_sufficient_signal(signal)
         THEN [eligible |-> FALSE, reason |-> "Insufficient signal",
               signal |-> Some(signal)]
         ELSE IF signal.consecutive_passes < CANARY_MIN_PASSES
         THEN [eligible |-> FALSE, reason |-> "Insufficient consecutive passes",
               signal |-> Some(signal)]
         ELSE IF ~RateAtLeastOne(pass_rate(signal))
         THEN [eligible |-> FALSE, reason |-> "Pass rate < 100% required",
               signal |-> Some(signal)]
         ELSE [eligible |-> TRUE, reason |-> "All promotion criteria met",
               signal |-> Some(signal)]

check_promotion_eligibility(domain) ==
    /\ Returns("check_promotion_eligibility", "ok",
               Some(Eligibility(domain)))
    /\ UNCHANGED <<pc, now, overrides, canary_signals, safety_budget, disk,
                   window_issued>>

\* promote_canary asking only that the domain has a signal
promote_canary_unchecked(domain, approved_by, review_ticket) ==
    LET eligibility == Eligibility(domain) IN
    /\ IF eligibility.signal = None
       THEN Returns("promote_canary", "ineligible",
                    Some(<<"Cannot promote:", eligibility.reason>>))
       ELSE Returns("promote_canary", "ok",
                    Some([domain |-> domain, promoted_at |-> now,
                          approved_by |-> approved_by,
                          review_ticket |-> review_ticket,
                          signal |-> eligibility.signal]))
    /\ UNCHANGED <<pc, now, overrides, canary_signals, safety_budget, disk,
                   window_issued>>

promote_canary(domain, approved_by, review_ticket) ==
    LET eligibility == Eligibility(domain) IN
    /\ IF ~eligibility.eligible
       THEN Returns("promote_canary", "ineligible",
                    Some(<<"Cannot promote:", eligibility.reason>>))
       ELSE Returns("promote_canary", "ok",
                    Some([domain |-> domain, promoted_at |-> now,
                          approved_by |-> approved_by,
                          review_ticket |-> review_ticket,
                          signal |-> eligibility.signal]))
    /\ UNCHANGED <<pc, now, overrides, canary_signals, safety_budget, disk,
                   window_issued>>

----------------------------------------------------------------------------
(* Calibration as policy input *)

\* the adjustments with the penalties of degraded and unknown exchanged
policy_adjustment_swapped(calibration_status) ==
    IF calibration_status = "healthy"
    THEN [confidence_penalty |-> 0, restrict_phishing |-> FALSE,
          require_warning |-> FALSE, ci_should_warn |-> FALSE,
          warning_message |-> None]
    ELSE IF calibration_status = "degraded"
    THEN [confidence_penalty |-> 10, restrict_phishing |-> TRUE,
          require_warning |-> TRUE, ci_should_warn |-> TRUE,
          warning_message |->
             Some("Model calibration is degraded. Confidence reduced.")]
    ELSE [confidence_penalty |-> 20, restrict_phishing |-> TRUE,
          require_warning |-> TRUE, ci_should_warn |-> TRUE,
          warning_message |->
             Some("Calibration status unknown. Results may be unreliable.")]

\* the dict get_calibration_policy_adjustment returns; the penalty is in
\* hundredths (0.20 is 20), and a dict without warning_message has None;
\* every status other than healthy and degraded takes the last branch
policy_adjustment(calibration_status) ==
    IF calibration_status = "healthy"
    THEN [confidence_penalty |-> 0, restrict_phishing |-> FALSE,
          require_warning |-> FALSE, ci_should_warn |-> FALSE,
          warning_message |-> None]
    ELSE IF calibration_status = "degraded"
    THEN [confidence_penalty |-> 20, restrict_phishing |-> TRUE,
          require_warning |-> TRUE, ci_should_warn |-> TRUE,
          warning_message |->
             Some("Model calibration is degraded. Confidence reduced.")]
    ELSE [confidence_penalty |-> 10, restrict_phishing |-> TRUE,
          require_warning |-> TRUE, ci_should_warn |-> TRUE,
          warning_message |->
             Some("Calibration status unknown. Results may be unreliable.")]

get_calibration_policy_adjustment(calibration_status) ==
    /\ Returns("get_calibration_policy_adjustment", "ok",
               Some(policy_adjustment(calibration_status)))
    /\ UNCHANGED <<pc, now, overrides, canary_signals, safety_budget, disk,
                   window_issued>>

\* the restriction applied whatever the calibration status is
restricted_verdict_always(original_verdict, calibration_status) ==
    IF original_verdict = "PHISHING" THEN "SUSPICIOUS" ELSE original_verdict

\* the verdict apply_calibration_restriction returns
restricted_verdict(original_verdict, calibration_status) ==
    LET adjustment == policy_adjustment(calibration_status) IN
    IF adjustment.restrict_phishing /\ original_verdict = "PHISHING"
    THEN "SUSPICIOUS"
    ELSE original_verdict

apply_calibration_restriction(original_verdict, calibration_status) ==
    /\ Returns("apply_calibration_restriction", "ok",
               Some(restricted_verdict(original_verdict, calibration_status)))
    /\ UNCHANGED <<pc, now, overrides, canary_signals, safety_budget, disk,
                   window_issued>>

----------------------------------------------------------------------------
(* Safety budgets and escalation *)

\* the budget after the counter of event_type has been incremented
Counted(b, event_type) ==
    CASE event_type = "suspicious_on_trusted" ->
            trigger_freeze([b EXCEPT !.suspicious_on_trusted = @ + 1],
                           "CRITICAL: SUSPICIOUS verdict on trusted domain")
      [] event_type = "override" -> [b EXCEPT !.overrides_used = @ + 1]
      [] event_type = "canary_failure" -> [b EXCEPT !.canary_failures = @ + 1]
      [] OTHER -> b

\* the loop over is_budget_exceeded().items(), in the dict's order: the first
\* exceeded budget freezes, and the later ones then find the system frozen
BudgetsChecked(b) ==
    LET exceeded == is_budget_exceeded(b) IN
    IF b.is_frozen THEN b
    ELSE IF exceeded.suspicious_on_trusted
    THEN trigger_freeze(b, "Safety budget exceeded: suspicious_on_trusted")
    ELSE IF exceeded.overrides_per_window
    THEN trigger_freeze(b, "Safety budget exceeded: overrides_per_window")
    ELSE IF exceeded.canary_failures
    THEN trigger_freeze(b, "Safety budget exceeded: canary_failures")
    ELSE b

\* record_safety_event rolling the window over once it has aged
record_safety_event_rollover(event_type) ==
    LET b0 == IF now > safety_budget.window_start
              THEN reset_safety_budget(now) ELSE safety_budget
        b == BudgetsChecked(Counted(b0, event_type))
    IN
    /\ safety_budget' = b
    /\ disk' = save_state(overrides, canary_signals, b, now)
    /\ Returns("record_safety_event", "ok", None)
    /\ UNCHANGED <<pc, now, overrides, canary_signals, window_issued>>

record_safety_event(event_type) ==
    LET b == BudgetsChecked(Counted(safety_budget, event_type)) IN
    /\ safety_budget' = b
    /\ disk' = save_state(overrides, canary_signals, b, now)
    /\ Returns("record_safety_event", "ok", None)
    /\ UNCHANGED <<pc, now, overrides, canary_signals, window_issued>>

\* lift_freeze clearing the flag and the reason without resetting the window
lift_freeze_no_reset(lifted_by, resolution, review_ticket) ==
    /\ UNCHANGED <<pc, now, overrides, canary_signals>>
    /\ IF ~safety_budget.is_frozen
       THEN /\ Returns("lift_freeze", "not_frozen", None)
            /\ UNCHANGED <<safety_budget, disk, window_issued>>
       ELSE LET b == [safety_budget EXCEPT !.is_frozen = FALSE,
                                           !.freeze_reason = None] IN
            /\ safety_budget' = b
            /\ disk' = save_state(overrides, canary_signals, b, now)
            /\ Returns("lift_freeze", "lifted", None)
            /\ window_issued' = 0

\* lift_freeze resetting the budget whether the system is frozen or not
lift_freeze_always(lifted_by, resolution, review_ticket) ==
    /\ UNCHANGED <<pc, now, overrides, canary_signals>>
    /\ LET b == reset_safety_budget(now) IN
       /\ safety_budget' = b
       /\ disk' = save_state(overrides, canary_signals, b, now)
       /\ Returns("lift_freeze", "lifted", None)
       /\ window_issued' = 0

\* lift_freeze clearing the flag and leaving the reason of the freeze
lift_freeze_keeps_reason(lifted_by, resolution, review_ticket) ==
    /\ UNCHANGED <<pc, now, overrides, canary_signals>>
    /\ IF ~safety_budget.is_frozen
       THEN /\ Returns("lift_freeze", "not_frozen", None)
            /\ UNCHANGED <<safety_budget, disk, window_issued>>
       ELSE LET b == [reset_safety_budget(now) EXCEPT
                        !.freeze_reason = safety_budget.freeze_reason] IN
            /\ safety_budget' = b
            /\ disk' = save_state(overrides, canary_signals, b, now)
            /\ Returns("lift_freeze", "lifted", None)
            /\ window_issued' = 0

\* lift_freeze dropping the inactive overrides from the ledger
lift_freeze_purge(lifted_by, resolution, review_ticket) ==
    /\ UNCHANGED <<pc, now, canary_signals>>
    /\ IF ~safety_budget.is_frozen
       THEN /\ Returns("lift_freeze", "not_frozen", None)
            /\ UNCHANGED <<overrides, safety_budget, disk, window_issued>>
       ELSE LET b == reset_safety_budget(now)
                os == SelectSeq(overrides, LAMBDA o : o.is_active)
            IN
            /\ overrides' = os
            /\ safety_budget' = b
            /\ disk' = save_state(os, canary_signals, b, now)
            /\ Returns("lift_freeze", "lifted", None)
            /\ window_issued' = 0

lift_freeze(lifted_by, resolution, review_ticket) ==
    /\ UNCHANGED <<pc, now, overrides, canary_signals>>
    /\ IF ~safety_budget.is_frozen
       THEN /\ Returns("lift_freeze", "not_frozen", None)
            /\ UNCHANGED <<safety_budget, disk, window_issued>>
       ELSE LET b == reset_safety_budget(now) IN
            /\ safety_budget' = b
            /\ disk' = save_state(overrides, canary_signals, b, now)
            /\ Returns("lift_freeze", "lifted", None)
            /\ window_issued' = 0

get_safety_status ==
    LET os == Demoted(overrides, now) IN
    /\ overrides' = os
    /\ disk' = save_state(os, canary_signals, safety_budget, now)
    /\ Returns("get_safety_status", "ok",
               Some([is_frozen |-> safety_budget.is_frozen,
                     freeze_reason |-> safety_budget.freeze_reason,
                     budget_exceeded |-> is_budget_exceeded(safety_budget),
                     active_overrides |-> Len(Active(overrides, now)),
                     window_start |-> safety_budget.window_start]))
    /\ UNCHANGED <<pc, now, canary_signals, safety_budget, window_issued>>

----------------------------------------------------------------------------
(* Policy-as-code verification *)

\* Python's "not value" for what get() returned
Falsy(value) == value = None \/ value = Some("")

\* an entry of errors or warnings: its text, then the values formatted in
Message(text) == <<text>>
Has(messages, text) == \E i \in 1..Len(messages) : messages[i][1] = text

\* a verifier that returns as soon as the manifest is found missing
policy_report_short_circuit(manifest, snapshot, calibration) ==
    LET manifest_exists == manifest # None
        errors_manifest ==
            IF ~manifest_exists
            THEN <<Message("Manifest file missing: trusted_domains_manifest.json")>>
            ELSE (IF Falsy(manifest[1].version)
                  THEN <<Message("Manifest missing 'version' field")>>
                  ELSE <<>>)
                 \o (IF Falsy(manifest[1].change_reason)
                     THEN <<Message("Manifest missing 'change_reason' field")>>
                     ELSE <<>>)
        errors_snapshot ==
            IF snapshot = None
            THEN <<Message("Snapshot file missing")>>
            ELSE IF manifest_exists
                    /\ snapshot[1]._manifest_version # manifest[1].version
                 THEN <<<<"Version mismatch", manifest[1].version,
                          snapshot[1]._manifest_version>>>>
                 ELSE <<>>
        errors == IF ~manifest_exists THEN errors_manifest
                  ELSE errors_manifest \o errors_snapshot
        warnings ==
            IF ~manifest_exists THEN <<>>
            ELSE IF calibration = None
            THEN <<Message("Calibration metrics file missing")>>
            ELSE IF calibration[1].calibration_status # Some("healthy")
                 THEN <<<<"Calibration status is not 'healthy'",
                          calibration[1].calibration_status>>>>
                 ELSE <<>>
    IN [consistent |-> Len(errors) = 0,
        errors |-> errors,
        warnings |-> warnings,
        should_fail_ci |-> Len(errors) > 0]

\* a verifier for which a warning fails CI as an error does
policy_report_warnings_fail(manifest, snapshot, calibration) ==
    LET manifest_exists == manifest # None
        errors_manifest ==
            IF ~manifest_exists
            THEN <<Message("Manifest file missing: trusted_domains_manifest.json")>>
            ELSE (IF Falsy(manifest[1].version)
                  THEN <<Message("Manifest missing 'version' field")>>
                  ELSE <<>>)
                 \o (IF Falsy(manifest[1].change_reason)
                     THEN <<Message("Manifest missing 'change_reason' field")>>
                     ELSE <<>>)
        errors_snapshot ==
            IF snapshot = None
            THEN <<Message("Snapshot file missing")>>
            ELSE IF manifest_exists
                    /\ snapshot[1]._manifest_version # manifest[1].version
                 THEN <<<<"Version mismatch", manifest[1].version,
                          snapshot[1]._manifest_version>>>>
                 ELSE <<>>
        errors == errors_manifest \o errors_snapshot
        warnings ==
            IF calibration = None
            THEN <<Message("Calibration metrics file missing")>>
            ELSE IF calibration[1].calibration_status # Some("healthy")
                 THEN <<<<"Calibration status is not 'healthy'",
                          calibration[1].calibration_status>>>>
                 ELSE <<>>
    IN [consistent |-> Len(errors) = 0,
        errors |-> errors,
        warnings |-> warnings,
        should_fail_ci |-> Len(errors) + Len(warnings) > 0]

\* the dict verify_policy_consistency returns for the three files
policy_report(manifest, snapshot, calibration) ==
    LET manifest_exists == manifest # None
        errors_manifest ==
            IF ~manifest_exists
            THEN <<Message("Manifest file missing: trusted_domains_manifest.json")>>
            ELSE (IF Falsy(manifest[1].version)
                  THEN <<Message("Manifest missing 'version' field")>>
                  ELSE <<>>)
                 \o (IF Falsy(manifest[1].change_reason)
                     THEN <<Message("Manifest missing 'change_reason' field")>>
                     ELSE <<>>)
        errors_snapshot ==
            IF snapshot = None
            THEN <<Message("Snapshot file missing")>>
            ELSE IF manifest_exists
                    /\ snapshot[1]._manifest_version # manifest[1].version
                 THEN <<<<"Version mismatch", manifest[1].version,
                          snapshot[1]._manifest_version>>>>
                 ELSE <<>>
        errors == errors_manifest \o errors_snapshot
        warnings ==
            IF calibration = None
            THEN <<Message("Calibration metrics file missing")>>
            ELSE IF calibration[1].calibration_status # Some("healthy")
                 THEN <<<<"Calibration status is not 'healthy'",
                          calibration[1].calibration_status>>>>
                 ELSE <<>>
    IN [consistent |-> Len(errors) = 0,
        errors |-> errors,
        warnings |-> warnings,
        should_fail_ci |-> Len(errors) > 0]

verify_policy_consistency(manifest, snapshot, calibration) ==
    /\ Returns("verify_policy_consistency", "ok",
               Some(policy_report(manifest, snapshot, calibration)))
    /\ UNCHANGED <<pc, now, overrides, canary_signals, safety_budget, disk,
                   window_issued>>

----------------------------------------------------------------------------
(* Construction from the state file *)

\* the state file while _save_state is writing it: open(path, 'w') has cut
\* it to length zero and json.dump has not finished; not valid JSON
Torn == Some([truncated |-> TRUE])

\* the file holds a safety_budget section that is not empty
HasBudget(file) ==
    /\ file # None
    /\ "safety_budget" \in DOMAIN file[1]
    /\ DOMAIN file[1].safety_budget # {}

\* _load_state reading the counters of the budget and not the freeze
load_state_unfrozen(file, t) ==
    IF file = None
    THEN [error |-> "ok", overrides |-> <<>>, canary_signals |-> <<>>,
          safety_budget |-> reset_safety_budget(t)]
    ELSE LET data == file[1] IN
         IF "truncated" \in DOMAIN data
         THEN [error |-> "load_error", overrides |-> <<>>,
               canary_signals |-> <<>>,
               safety_budget |-> reset_safety_budget(t)]
         ELSE [error |-> "ok",
               overrides |->
                  IF "overrides" \in DOMAIN data THEN data.overrides ELSE <<>>,
               canary_signals |->
                  IF "canary_signals" \in DOMAIN data
                  THEN data.canary_signals ELSE <<>>,
               safety_budget |->
                  IF HasBudget(file)
                  THEN [data.safety_budget EXCEPT !.is_frozen = FALSE,
                                                  !.freeze_reason = None]
                  ELSE reset_safety_budget(t)]

\* what _load_state makes of the file at time t: json.load raises on a torn
\* file; a missing section is defaulted by data.get, and an empty
\* safety_budget section counts as missing
load_state(file, t) ==
    IF file = None
    THEN [error |-> "ok", overrides |-> <<>>, canary_signals |-> <<>>,
          safety_budget |-> reset_safety_budget(t)]
    ELSE LET data == file[1] IN
         IF "truncated" \in DOMAIN data
         THEN [error |-> "load_error", overrides |-> <<>>,
               canary_signals |-> <<>>,
               safety_budget |-> reset_safety_budget(t)]
         ELSE [error |-> "ok",
               overrides |->
                  IF "overrides" \in DOMAIN data THEN data.overrides ELSE <<>>,
               canary_signals |->
                  IF "canary_signals" \in DOMAIN data
                  THEN data.canary_signals ELSE <<>>,
               safety_budget |->
                  IF HasBudget(file)
                  THEN data.safety_budget ELSE reset_safety_budget(t)]

\* the process is killed, wherever its threads stand, and a new engine is
\* constructed from the state file; when _load_state raises there is no
\* engine, and the in-memory variables hold no state
restart ==
    LET loaded == load_state(disk, now) IN
    /\ pc' = [t \in Threads |-> Idle]
    /\ overrides' = loaded.overrides
    /\ canary_signals' = loaded.canary_signals
    /\ safety_budget' = loaded.safety_budget
    /\ result' = [op |-> "init", outcome |-> loaded.error, ret |-> None]
    /\ window_issued' = IF HasBudget(disk) THEN window_issued ELSE 0
    /\ UNCHANGED <<now, disk>>

\* an engine exists: the last construction did not raise
Running == ~(result.op = "init" /\ result.outcome = "load_error")

----------------------------------------------------------------------------
(* request_override, statement by statement, as a thread runs it *)

At(t, label) == pc[t].at = label

Goto(t, r) == pc' = [pc EXCEPT ![t] = r]

\* lines 266-276: the frozen check, the validation and the expiration
request_begin(t, req) ==
    /\ At(t, "idle")
    /\ UNCHANGED <<now, overrides, canary_signals, safety_budget, disk,
                   window_issued>>
    /\ IF safety_budget.is_frozen
       THEN /\ Returns("request_override", "frozen",
                       Some(<<"System is frozen:", safety_budget.freeze_reason>>))
            /\ UNCHANGED pc
       ELSE LET valid == validate_authority(req.override_type, req.authority,
                                            req.review_ticket)
            IN
            IF valid.error # "ok"
            THEN /\ Returns("request_override", valid.error, valid.message)
                 /\ UNCHANGED pc
            ELSE /\ Goto(t, [Idle EXCEPT
                               !.at = "budget", !.req = Some(req),
                               !.expires_at =
                                  calculate_expiration(req.override_type,
                                                       req.duration, now)])
                 /\ UNCHANGED result

\* lines 279-282: the budget check; _trigger_freeze sets the flag and the
\* reason and then saves
request_check_budget(t) ==
    /\ At(t, "budget")
    /\ UNCHANGED <<now, overrides, canary_signals, disk, result, window_issued>>
    /\ IF is_budget_exceeded(safety_budget).overrides_per_window
       THEN /\ safety_budget' =
                  trigger_freeze(safety_budget, "Override budget exceeded")
            /\ Goto(t, [pc[t] EXCEPT !.at = "open", !.outcome = "budget"])
       ELSE /\ Goto(t, [pc[t] EXCEPT !.at = "append"])
            /\ UNCHANGED safety_budget

\* lines 285-299: the Override is built and appended
request_append(t) ==
    /\ At(t, "append")
    /\ LET req == pc[t].req[1]
           override ==
              [override_id |-> generate_override_id,
               override_type |-> req.override_type,
               authority |-> req.authority,
               created_at |-> now,
               expires_at |-> pc[t].expires_at,
               affected_domains |-> req.affected_domains,
               reason |-> req.reason,
               approved_by |-> req.approved_by,
               review_ticket |-> req.review_ticket,
               is_active |-> TRUE]
       IN /\ overrides' = Append(overrides, override)
          /\ Goto(t, [pc[t] EXCEPT !.at = "load", !.override = Some(override)])
    /\ UNCHANGED <<now, canary_signals, safety_budget, disk, result,
                   window_issued>>

\* line 300, overrides_used += 1: the read
request_load_counter(t) ==
    /\ At(t, "load")
    /\ Goto(t, [pc[t] EXCEPT !.at = "store",
                             !.used = Some(safety_budget.overrides_used)])
    /\ UNCHANGED <<now, overrides, canary_signals, safety_budget, disk, result,
                   window_issued>>

\* line 300, overrides_used += 1: the write
request_store_counter(t) ==
    /\ At(t, "store")
    /\ safety_budget' =
          [safety_budget EXCEPT !.overrides_used = pc[t].used[1] + 1]
    /\ Goto(t, [pc[t] EXCEPT !.at = "open", !.outcome = "ok"])
    /\ UNCHANGED <<now, overrides, canary_signals, disk, result, window_issued>>

\* _save_state, lines 225-231: the snapshot is built from memory and the
\* file is opened for writing, which cuts it to length zero
save_open(t) ==
    /\ At(t, "open")
    /\ Goto(t, [pc[t] EXCEPT
                  !.at = "dump",
                  !.data = save_state(overrides, canary_signals,
                                      safety_budget, now)])
    /\ disk' = Torn
    /\ UNCHANGED <<now, overrides, canary_signals, safety_budget, result,
                   window_issued>>

\* _save_state, line 232: the snapshot is written and the file closed; then
\* request_override returns the override or raises the budget error
save_dump(t) ==
    /\ At(t, "dump")
    /\ disk' = pc[t].data
    /\ IF pc[t].outcome = "ok"
       THEN /\ Returns("request_override", "ok", pc[t].override)
            /\ window_issued' = window_issued + 1
       ELSE /\ Returns("request_override", "budget",
                       Some(<<"Override budget exceeded. System frozen.">>))
            /\ UNCHANGED window_issued
    /\ Goto(t, Idle)
    /\ UNCHANGED <<now, overrides, canary_signals, safety_budget>>

----------------------------------------------------------------------------
(* The clock *)

Tick(hours) ==
    /\ now' = now + hours
    /\ UNCHANGED <<pc, overrides, canary_signals, safety_budget, disk, result,
                   window_issued>>

----------------------------------------------------------------------------------------------------------------------------------------
(* Specifications *)

Operators == {"alice"}
Resolutions == {"root cause fixed"}
LiftTickets == {"", "T-2"}

TotalRuns ==
    LET RECURSIVE Sum(_)
        Sum(D) == IF D = {} THEN 0
                  ELSE LET d == CHOOSE x \in D : TRUE
                       IN canary_signals[d].test_runs + Sum(D \ {d})
    IN Sum(DOMAIN canary_signals)

CounterOf(event_type) ==
    CASE event_type = "suspicious_on_trusted" -> safety_budget.suspicious_on_trusted
      [] event_type = "override" -> safety_budget.overrides_used
      [] event_type = "canary_failure" -> safety_budget.canary_failures
      [] OTHER -> 0

LimitOf(event_type) ==
    CASE event_type = "suspicious_on_trusted" -> SAFETY_BUDGET_LIMITS.suspicious_on_trusted
      [] event_type = "override" -> SAFETY_BUDGET_LIMITS.overrides_per_window
      [] event_type = "canary_failure" -> SAFETY_BUDGET_LIMITS.canary_failures
      [] OTHER -> 0

\* the requests of Spec and of SpecBudget: every kind and authority, with
\* and without a ticket, for the kind's maximum duration
MainRequests ==
    {req \in Requests : req.review_ticket # Some("") /\ req.duration = None}

\* The whole engine: every state-changing public operation and the clock.
\* A request is tried in every state; the bound stops only a request that
\* would lengthen the ledger.  Size is what the bound of Spec measures.
Size ==
    now + Len(overrides) + TotalRuns + safety_budget.suspicious_on_trusted
        + safety_budget.overrides_used + safety_budget.canary_failures

Next ==
    \/ \E req \in MainRequests :
          /\ request_override(req)
          /\ overrides' # overrides => Size < MaxSize
    \/ get_active_overrides
    \/ \E id \in 1..(Len(overrides) + 1) : revoke_override(id)
    \/ \E d \in {"example.com"}, v \in {"SAFE", "PHISHING"}, n \in {20} :
          Size < MaxSize /\ record_canary_result(d, v, n)
    \/ \E e \in EventTypes : Size < MaxSize /\ record_safety_event(e)
    \/ \E by \in Operators, res \in Resolutions, t \in LiftTickets :
          lift_freeze(by, res, t)
    \/ Size < MaxSize /\ Tick(1)

Spec == Init /\ [][Next]_vars

\* The override ledger: requests of every kind, authority and ticket, with
\* the zero-tolerance event to freeze, the lift and the clock.
LedgerRequests == {req \in Requests : req.duration = None}

NextLedger ==
    \/ \E req \in LedgerRequests :
          /\ request_override(req)
          /\ overrides' # overrides => Len(overrides) < LedgerOverrides
    \/ /\ safety_budget.suspicious_on_trusted < LedgerEvents
       /\ record_safety_event("suspicious_on_trusted")
    \/ \E by \in Operators, res \in Resolutions, t \in LiftTickets :
          lift_freeze(by, res, t)
    \/ now < LedgerTime /\ Tick(1)

SpecLedger == Init /\ [][NextLedger]_vars

\* Expiration: ticketed requests of every kind, authority and duration, the
\* listing that demotes expired overrides, revocation and the clock.
ExpiryRequests == {req \in Requests : req.review_ticket = Some("T-1")}

NextExpiry ==
    \/ \E req \in ExpiryRequests :
          /\ request_override(req)
          /\ overrides' # overrides => Len(overrides) < ExpiryOverrides
    \/ get_active_overrides
    \/ \E id \in 1..(Len(overrides) + 1) : revoke_override(id)
    \/ now < ExpiryTime /\ Tick(1)

SpecExpiry == Init /\ [][NextExpiry]_vars

\* The budget window: many requests of two shapes, every event and the lift.
BudgetRequests ==
    {req \in MainRequests :
        req.review_ticket = Some("T-1") /\ req.authority # "security-team"}

NextBudget ==
    \/ \E req \in BudgetRequests :
          /\ request_override(req)
          /\ overrides' # overrides => Len(overrides) < BudgetOverrides
    \/ \E e \in EventTypes :
          CounterOf(e) < LimitOf(e) + BudgetExcess /\ record_safety_event(e)
    \/ \E by \in Operators, res \in Resolutions, t \in LiftTickets :
          lift_freeze(by, res, t)

SpecBudget == Init /\ [][NextBudget]_vars

\* The canary tracker: results of every verdict and sample size.
NextCanary ==
    \/ \E d \in Domains, v \in Verdicts, n \in SampleSizes :
          TotalRuns < CanaryRuns /\ record_canary_result(d, v, n)
    \/ \E d \in Domains : check_promotion_eligibility(d)
    \/ \E d \in Domains, a \in Approvers, t \in LiftTickets : promote_canary(d, a, t)
    \/ \E by \in Operators, res \in Resolutions, t \in LiftTickets :
          lift_freeze(by, res, t)

SpecCanary == Init /\ [][NextCanary]_vars

\* The canary signals: a few results of every domain, verdict and sample
\* size, and the eligibility report.
NextSignals ==
    \/ \E d \in Domains, v \in Verdicts, n \in SampleSizes :
          TotalRuns < SignalRuns /\ record_canary_result(d, v, n)
    \/ \E d \in Domains : check_promotion_eligibility(d)

SpecSignals == Init /\ [][NextSignals]_vars

\* Two threads in request_override, statement by statement, and the kill and
\* restart of the process.
ThreadRequests ==
    {req \in MainRequests :
        /\ req.override_type = "emergency"
        /\ req.authority # "security-team"
        /\ req.review_ticket = Some("T-1")}

InFlight == Cardinality({t \in Threads : ~At(t, "idle")})

NextThreads ==
    \/ \E t \in Threads, req \in ThreadRequests :
          /\ Running
          /\ request_begin(t, req)
          /\ pc' # pc =>
                /\ Len(overrides) + InFlight < ThreadOverrides
                /\ window_issued + InFlight < ThreadOverrides
    \/ \E t \in Threads : request_check_budget(t)
    \/ \E t \in Threads : request_append(t)
    \/ \E t \in Threads : request_load_counter(t)
    \/ \E t \in Threads : request_store_counter(t)
    \/ \E t \in Threads : save_open(t)
    \/ \E t \in Threads : save_dump(t)
    \/ Running /\ restart

SpecThreads == Init /\ [][NextThreads]_vars

\* State files an engine may be constructed from: none, the snapshot of a
\* frozen engine with one override, and that snapshot short of sections.
SavedOverride ==
    [override_id |-> 1, override_type |-> "emergency", authority |-> "on-call",
     created_at |-> 0, expires_at |-> Some(EMERGENCY_MAX_HOURS),
     affected_domains |-> <<"example.com">>, reason |-> "incident",
     approved_by |-> "alice", review_ticket |-> Some("T-1"),
     is_active |-> TRUE]

SavedBudget ==
    trigger_freeze([reset_safety_budget(0) EXCEPT !.suspicious_on_trusted = 1,
                                                  !.overrides_used = 1],
                   "CRITICAL: SUSPICIOUS verdict on trusted domain")

SavedSignals == [d \in {"example.com"} |->
                   Recorded(NewCanarySignal(d), "SAFE", 20, 0)]

InitLoad ==
    /\ pc = [t \in Threads |-> Idle]
    /\ now = 0
    /\ window_issued = 0
    /\ \/ disk = None
       \/ disk = Some([overrides |-> <<SavedOverride>>,
                       canary_signals |-> SavedSignals,
                       safety_budget |-> SavedBudget])
       \/ disk = Some([overrides |-> <<SavedOverride>>,
                       canary_signals |-> SavedSignals])
       \/ disk = Some([canary_signals |-> SavedSignals,
                       safety_budget |-> SavedBudget])
       \/ disk = Some([overrides |-> <<SavedOverride>>,
                       safety_budget |-> SavedBudget])
       \/ disk = Some([last_updated |-> 0])
       \/ disk = Torn
    /\ LET loaded == load_state(disk, now) IN
          /\ overrides = loaded.overrides
          /\ canary_signals = loaded.canary_signals
          /\ safety_budget = loaded.safety_budget
          /\ result = [op |-> "init", outcome |-> loaded.error, ret |-> None]

NextLoad ==
    \/ \E req \in BudgetRequests :
          /\ Running
          /\ request_override(req)
          /\ overrides' # overrides => Len(overrides) < LoadOverrides
    \/ Running /\ get_active_overrides
    \/ /\ Running
       /\ safety_budget.suspicious_on_trusted < LoadEvents
       /\ record_safety_event("suspicious_on_trusted")
    \/ \E by \in Operators, res \in Resolutions, t \in LiftTickets :
          Running /\ lift_freeze(by, res, t)
    \/ Running /\ restart

SpecLoad == InitLoad /\ [][NextLoad]_vars

\* Calibration: the two calibration functions for every verdict and status,
\* on an engine whose ledger and freeze change.
NextCalibration ==
    \/ \E s \in CalibrationStatuses : get_calibration_policy_adjustment(s)
    \/ \E v \in Verdicts, s \in CalibrationStatuses :
          apply_calibration_restriction(v, s)
    \/ \E req \in BudgetRequests :
          /\ request_override(req)
          /\ overrides' # overrides => Len(overrides) < CalibrationOverrides
    \/ /\ safety_budget.suspicious_on_trusted < CalibrationEvents
       /\ record_safety_event("suspicious_on_trusted")
    \/ \E by \in Operators, res \in Resolutions, t \in LiftTickets :
          lift_freeze(by, res, t)

SpecCalibration == Init /\ [][NextCalibration]_vars

\* Verifier: verify_policy_consistency for every combination of the three
\* files, on an engine that freezes and is unfrozen.
NextVerifier ==
    \/ \E m \in Manifests, s \in Snapshots, c \in CalibrationMetrics :
          verify_policy_consistency(m, s, c)
    \/ /\ safety_budget.suspicious_on_trusted < VerifierEvents
       /\ record_safety_event("suspicious_on_trusted")
    \/ \E by \in Operators, res \in Resolutions, t \in LiftTickets :
          lift_freeze(by, res, t)

SpecVerifier == Init /\ [][NextVerifier]_vars

\* Promotion: enough canary results for a domain to become eligible, the
\* eligibility report and the promotion.
NextPromotion ==
    \/ \E d \in Domains, v \in Verdicts, n \in SampleSizes :
          TotalRuns < PromotionRuns /\ record_canary_result(d, v, n)
    \/ \E d \in Domains : check_promotion_eligibility(d)
    \/ \E d \in Domains, a \in Approvers, t \in LiftTickets :
          promote_canary(d, a, t)

SpecPromotion == Init /\ [][NextPromotion]_vars

\* The life of an override: permanent and testing overrides are issued,
\* expire, are read and revoked, while the system freezes and is unfrozen.
LifecycleRequests ==
    {req \in Requests :
        /\ req.review_ticket = Some("T-1") /\ req.duration = None
        /\ <<req.override_type, req.authority>> \in
              {<<"permanent", "security-team">>, <<"testing", "ci-system">>}}

NextLifecycle ==
    \/ \E req \in LifecycleRequests :
          /\ request_override(req)
          /\ overrides' # overrides => Len(overrides) < LifecycleOverrides
    \/ get_active_overrides
    \/ get_safety_status
    \/ \E id \in 1..(Len(overrides) + 1) : revoke_override(id)
    \/ /\ safety_budget.suspicious_on_trusted < LifecycleEvents
       /\ record_safety_event("suspicious_on_trusted")
    \/ \E by \in Operators, res \in Resolutions, t \in LiftTickets :
          lift_freeze(by, res, t)
    \/ now < LifecycleTime /\ Tick(1)

SpecLifecycle == Init /\ [][NextLifecycle]_vars

\* The frozen system: every public operation, before and after a freeze.
NextFrozen ==
    \/ \E req \in BudgetRequests :
          /\ request_override(req)
          /\ overrides' # overrides => Len(overrides) < FrozenOverrides
    \/ get_active_overrides
    \/ get_safety_status
    \/ \E id \in 1..(Len(overrides) + 1) : revoke_override(id)
    \/ \E d \in {"example.com"}, v \in {"SAFE", "PHISHING"}, n \in {20} :
          TotalRuns < FrozenRuns /\ record_canary_result(d, v, n)
    \/ \E e \in EventTypes :
          CounterOf(e) < FrozenEvents /\ record_safety_event(e)
    \/ \E d \in {"example.com"} : check_promotion_eligibility(d)
    \/ \E v \in Verdicts, s \in {"healthy", "degraded"} :
          apply_calibration_restriction(v, s)
    \/ \E by \in Operators, res \in Resolutions, t \in LiftTickets :
          lift_freeze(by, res, t)

SpecFrozen == Init /\ [][NextFrozen]_vars

\* Two threads in request_override, statement by statement, while another
\* thread records a safety event or reads the active overrides; those two
\* calls run here in one piece, between two statements of the requests.
RaceRequests ==
    {req \in ThreadRequests : req.authority = "on-call"}

NextRace ==
    \/ \E t \in Threads, req \in RaceRequests :
          /\ request_begin(t, req)
          /\ pc' # pc => Len(overrides) + InFlight < RaceOverrides
    \/ \E t \in Threads : request_check_budget(t)
    \/ \E t \in Threads : request_append(t)
    \/ \E t \in Threads : request_load_counter(t)
    \/ \E t \in Threads : request_store_counter(t)
    \/ \E t \in Threads : save_open(t)
    \/ \E t \in Threads : save_dump(t)
    \/ /\ safety_budget.suspicious_on_trusted < RaceEvents
       /\ record_safety_event("suspicious_on_trusted")
    \/ get_active_overrides

SpecRace == Init /\ [][NextRace]_vars

\* One thread and restarts: every mutating operation, the clock, and the
\* construction of a new engine from the state file between any two calls.
NextRestart ==
    \/ \E req \in MainRequests :
          /\ request_override(req)
          /\ overrides' # overrides => Size < RestartSize
    \/ get_active_overrides
    \/ \E id \in 1..(Len(overrides) + 1) : revoke_override(id)
    \/ \E d \in {"example.com"}, v \in {"SAFE", "PHISHING"}, n \in {20} :
          Size < RestartSize /\ record_canary_result(d, v, n)
    \/ \E e \in EventTypes : Size < RestartSize /\ record_safety_event(e)
    \/ \E by \in Operators, res \in Resolutions, t \in LiftTickets :
          lift_freeze(by, res, t)
    \/ Size < RestartSize /\ Tick(1)
    \/ restart

SpecRestart == Init /\ [][NextRestart]_vars

\* A canary domain that fails once: results for one domain, a freeze and its
\* lift, the eligibility report and the promotion.
NextFailure ==
    \/ \E d \in {"example.com"}, v \in {"SAFE", "PHISHING"}, n \in {20, 100} :
          TotalRuns < FailureRuns /\ record_canary_result(d, v, n)
    \/ /\ safety_budget.suspicious_on_trusted < FailureEvents
       /\ record_safety_event("suspicious_on_trusted")
    \/ \E by \in Operators, res \in Resolutions, t \in LiftTickets :
          lift_freeze(by, res, t)
    \/ \E d \in {"example.com"} : check_promotion_eligibility(d)
    \/ \E d \in {"example.com"}, a \in Approvers, t \in LiftTickets :
          promote_canary(d, a, t)

SpecFailure == Init /\ [][NextFailure]_vars

----------------------------------------------------------------------------
(* Claims *)

PermittedPairs ==
    {<<"permanent", "security-team">>, <<"emergency", "security-team">>,
     <<"emergency", "on-call">>, <<"testing", "ci-system">>}

NoTicket(req) == req.review_ticket = None \/ req.review_ticket = Some("")

\* a request that passes the authority matrix and the ticket rule of the spec
WellFormed(req) ==
    /\ <<req.override_type, req.authority>> \in PermittedPairs
    /\ req.override_type = "permanent" => ~NoTicket(req)

Counters(b) == <<b.suspicious_on_trusted, b.overrides_used, b.canary_failures>>

\* C1: while the system is frozen every request_override, whatever its kind,
\* authority, ticket and duration, fails with the frozen-state error, appends
\* no override and changes neither a counter nor the freeze.
C1_FrozenRejectsEveryRequest ==
    [][safety_budget.is_frozen =>
          \A req \in LedgerRequests :
             request_override(req) =>
                /\ result'.op = "request_override"
                /\ result'.outcome = "frozen"
                /\ overrides' = overrides
                /\ safety_budget' = safety_budget]_vars

C1_Witness ==
    /\ safety_budget.is_frozen
    /\ Len(overrides) > 0
    /\ result.op = "request_override"
    /\ result.outcome = "frozen"

\* C2: record_safety_event("suspicious_on_trusted") leaves the system frozen
\* with a non-empty reason, whatever the counters and the frozen flag were.
C2_SuspiciousOnTrustedFreezes ==
    [][record_safety_event("suspicious_on_trusted") =>
          /\ safety_budget'.is_frozen
          /\ safety_budget'.freeze_reason # None
          /\ safety_budget'.freeze_reason # Some("")]_vars

\* a second occurrence, recorded on a system the first one had frozen
C2_Witness ==
    /\ safety_budget.suspicious_on_trusted = 2
    /\ safety_budget.is_frozen
    /\ safety_budget.freeze_reason =
          Some("CRITICAL: SUSPICIOUS verdict on trusted domain")
    /\ result.op = "record_safety_event"

\* C3: within one budget window at most 3 request_override calls succeed.
C3_AtMostThreeIssuedPerWindow ==
    window_issued <= 3

\* C4: after every operation, a counter over its limit (suspicious_on_trusted
\* > 0, overrides_used > 3, canary_failures > 5) means the system is frozen
\* with a non-empty reason.
C4_OverLimitMeansFrozen ==
    (\/ safety_budget.suspicious_on_trusted > 0
     \/ safety_budget.overrides_used > 3
     \/ safety_budget.canary_failures > 5) =>
        /\ safety_budget.is_frozen
        /\ safety_budget.freeze_reason # None
        /\ safety_budget.freeze_reason # Some("")

\* C5: the frozen flag is cleared by lift_freeze only: no other operation and
\* no passage of time takes a frozen system to an unfrozen one.
C5_OnlyLiftUnfreezes ==
    [][(safety_budget.is_frozen /\ ~safety_budget'.is_frozen) =>
          \E by \in Operators, res \in Resolutions, t \in LiftTickets :
              lift_freeze(by, res, t)]_vars

C5_Witness ==
    /\ result.op = "lift_freeze"
    /\ result.outcome = "lifted"
    /\ ~safety_budget.is_frozen
    /\ now > 0

\* C6: lift_freeze on a frozen system clears the flag and the reason, zeroes
\* the three counters and sets window_start to the time of the lift, and a
\* well-formed request_override made next succeeds.
C6_LiftResetsWindow ==
    [][/\ safety_budget.is_frozen =>
             \A by \in Operators, res \in Resolutions, t \in LiftTickets :
                lift_freeze(by, res, t) =>
                   /\ ~safety_budget'.is_frozen
                   /\ safety_budget'.freeze_reason = None
                   /\ Counters(safety_budget') = <<0, 0, 0>>
                   /\ safety_budget'.window_start = now
       /\ (result.op = "lift_freeze" /\ result.outcome = "lifted") =>
             \A req \in MainRequests :
                (WellFormed(req) /\ request_override(req)) =>
                   /\ result'.outcome = "ok"
                   /\ Len(overrides') = Len(overrides) + 1]_vars

\* an override issued in a window that a lift began
C6_Witness ==
    /\ safety_budget.window_start > 0
    /\ ~safety_budget.is_frozen
    /\ result.op = "request_override"
    /\ result.outcome = "ok"

C8_PermanentNeedsTicket ==
    /\ [](\A i \in DOMAIN overrides :
             overrides[i].override_type = "permanent" =>
                /\ overrides[i].review_ticket # None
                /\ overrides[i].review_ticket # Some(""))
    /\ [][\A req \in LedgerRequests :
             (/\ req.override_type = "permanent"
              /\ NoTicket(req)
              /\ request_override(req)) =>
                /\ result'.outcome \in {"frozen", "authority", "ticket"}
                /\ overrides' = overrides]_vars

C8_Witness ==
    /\ result.op = "request_override"
    /\ result.outcome = "ticket"
    /\ ~safety_budget.is_frozen

\* the maximum lifetime of a bounded kind, in hours
KindMax(override_type) == IF override_type = "emergency" THEN 24 ELSE 1

Min(a, b) == IF a <= b THEN a ELSE b

\* C9: an issued EMERGENCY or TESTING override expires min(requested
\* duration, kind maximum) after its creation, the maximum when no duration
\* is given; a duration above the maximum rejects nothing; every EMERGENCY or
\* TESTING override of the ledger lives at most its kind's maximum and every
\* PERMANENT one has no expiration.
C9_ExpirationCapped ==
    /\ [](\A i \in DOMAIN overrides :
             LET o == overrides[i] IN
             IF o.override_type = "permanent" THEN o.expires_at = None
             ELSE /\ o.expires_at # None
                  /\ o.expires_at[1] - o.created_at <= KindMax(o.override_type))
    /\ [][result'.outcome = "ok" =>
             \A req \in ExpiryRequests :
                (req.override_type # "permanent" /\ request_override(req)) =>
                   LET o == overrides'[Len(overrides')]
                       lifetime ==
                           IF req.duration = None THEN KindMax(req.override_type)
                           ELSE Min(req.duration[1], KindMax(req.override_type))
                   IN o.expires_at = Some(o.created_at + lifetime)]_vars
    /\ [][(~safety_budget.is_frozen /\ safety_budget.overrides_used < 3) =>
             \A req \in ExpiryRequests :
                (WellFormed(req) /\ request_override(req)) =>
                   result'.outcome = "ok"]_vars

\* a TESTING override issued with the full hour
C9_Witness ==
    /\ result.op = "request_override"
    /\ result.outcome = "ok"
    /\ Len(overrides) > 0
    /\ LET o == overrides[Len(overrides)] IN
          /\ o.override_type = "testing"
          /\ o.expires_at = Some(o.created_at + 1)
          /\ o.created_at > 0

\* C10: check_promotion_eligibility(domain) reports eligible exactly when
\* the domain has a signal with run count >= 5, sample size >= 100,
\* consecutive passes >= 5 and passes = runs.
C10_EligibleIff ==
    [][\A d \in Domains :
          check_promotion_eligibility(d) =>
             (result'.ret[1].eligible <=>
                 /\ d \in DOMAIN canary_signals
                 /\ canary_signals[d].test_runs >= 5
                 /\ canary_signals[d].sample_size >= 100
                 /\ canary_signals[d].consecutive_passes >= 5
                 /\ canary_signals[d].passes = canary_signals[d].test_runs)]_vars

\* five SAFE results of sample size 20 on a fresh domain
C10_Witness ==
    /\ result.op = "check_promotion_eligibility"
    /\ result.ret[1].eligible
    /\ result.ret[1].signal # None
    /\ LET s == result.ret[1].signal[1] IN
          /\ s.test_runs = 5
          /\ s.sample_size = 100
          /\ s.last_verdict = Some("SAFE")
          /\ canary_signals[s.domain] = s

\* C11: record_canary_result(domain, verdict, n) adds 1 to the domain's run
\* count and n to its sample size and sets the last verdict; PHISHING adds 1
\* to the domain's failures, zeroes its streak and adds 1 to canary_failures;
\* any other verdict adds 1 to passes and to the streak and leaves
\* canary_failures alone; the signals of the other domains are unchanged.
C11_RecordCanaryResult ==
    [][\A d \in Domains, v \in Verdicts, n \in SampleSizes :
          record_canary_result(d, v, n) =>
             LET old == SignalOf(d)
                 new == canary_signals'[d]
             IN
             /\ DOMAIN canary_signals' = DOMAIN canary_signals \cup {d}
             /\ new.test_runs = old.test_runs + 1
             /\ new.sample_size = old.sample_size + n
             /\ new.last_verdict = Some(v)
             /\ IF v = "PHISHING"
                THEN /\ new.failures = old.failures + 1
                     /\ new.passes = old.passes
                     /\ new.consecutive_passes = 0
                     /\ safety_budget'.canary_failures =
                           safety_budget.canary_failures + 1
                ELSE /\ new.passes = old.passes + 1
                     /\ new.failures = old.failures
                     /\ new.consecutive_passes = old.consecutive_passes + 1
                     /\ safety_budget'.canary_failures =
                           safety_budget.canary_failures
             /\ \A e \in DOMAIN canary_signals \ {d} :
                   canary_signals'[e] = canary_signals[e]]_vars

\* a PHISHING result that ended a streak, with a second domain on record
C11_Witness ==
    /\ result.op = "record_canary_result"
    /\ DOMAIN canary_signals = Domains
    /\ LET s == result.ret[1] IN
          /\ s.last_verdict = Some("PHISHING")
          /\ s.passes = 1
          /\ s.failures = 1
          /\ s.consecutive_passes = 0
          /\ s.sample_size = 120
    /\ safety_budget.canary_failures = 1
    /\ \E e \in Domains : canary_signals[e].last_verdict = Some("SUSPICIOUS")

\* the freeze reasons of the engine that contain the text canary_failures
MentionsCanaryFailures(reason) ==
    reason \in {"Safety budget exceeded: canary_failures"}

\* C12 as claimed: with canary_failures at 5 and the system not frozen,
\* record_canary_result with verdict PHISHING freezes the system with a
\* reason that mentions "canary_failures".
C12_ReasonMentionsCounter ==
    [][(safety_budget.canary_failures = 5 /\ ~safety_budget.is_frozen) =>
          \A d \in Domains, n \in SampleSizes :
             record_canary_result(d, "PHISHING", n) =>
                /\ safety_budget'.is_frozen
                /\ safety_budget'.freeze_reason # None
                /\ MentionsCanaryFailures(safety_budget'.freeze_reason[1])]_vars

\* C12 as amended: with canary_failures at 5 and the system not frozen,
\* record_canary_result with verdict PHISHING freezes the system with the
\* reason "Canary failure budget exceeded", and the counter reads 6.
C12_CanaryFailureFreezes ==
    [][(safety_budget.canary_failures = 5 /\ ~safety_budget.is_frozen) =>
          \A d \in Domains, n \in SampleSizes :
             record_canary_result(d, "PHISHING", n) =>
                /\ safety_budget'.is_frozen
                /\ safety_budget'.freeze_reason =
                      Some("Canary failure budget exceeded")
                /\ safety_budget'.canary_failures = 6]_vars

\* the sixth failure, recorded on bad.example
C12_Witness ==
    /\ result.op = "record_canary_result"
    /\ result.ret[1].domain = "bad.example"
    /\ result.ret[1].last_verdict = Some("PHISHING")
    /\ safety_budget.canary_failures = 6
    /\ safety_budget.is_frozen
    /\ safety_budget.freeze_reason = Some("Canary failure budget exceeded")

\* a thread is inside request_override
InRequest(t) == ~At(t, "idle")

\* C13: the check-frozen, validate, mutate, persist sequence of
\* request_override runs as one mutually exclusive step: no two threads are
\* inside it at once, so no two requests both pass the budget check on the
\* same count and both succeed.
C13_RequestsMutuallyExclusive ==
    \A t1 \in Threads, t2 \in Threads :
       (t1 # t2) => ~(InRequest(t1) /\ InRequest(t2))

\* the file holds a snapshot with its three sections
Complete(file) ==
    /\ file # None
    /\ {"overrides", "canary_signals", "safety_budget"} \subseteq DOMAIN file[1]
    /\ DOMAIN file[1].safety_budget # {}

\* C14: at every point at which the process may be killed the state file is
\* absent or holds a complete snapshot, the previous or the new one, and an
\* engine restarted from it loads.
C14_StateFileAlwaysComplete ==
    /\ disk = None \/ Complete(disk)
    /\ result.op = "init" => result.outcome = "ok"

\* C15: an engine constructed from a state file that exists and lacks a
\* section fails to initialize.
C15_InvalidSnapshotFailsInit ==
    (result.op = "init" /\ disk # None /\ ~Complete(disk)) =>
       result.outcome = "load_error"

\* C16: a request_override rejected for its authority or for a missing
\* ticket leaves the ledger, the signals, the budget (counters, frozen flag,
\* reason) and the state file exactly as they were.
C16_RejectionChangesNothing ==
    [][result'.outcome \in {"authority", "ticket"} =>
          \A req \in LedgerRequests :
             request_override(req) =>
                UNCHANGED <<overrides, canary_signals, safety_budget, disk>>]_vars

\* a PERMANENT request without ticket rejected by an engine with an
\* override on file
C16_Witness ==
    /\ result.op = "request_override"
    /\ result.outcome = "ticket"
    /\ Len(overrides) = 1
    /\ safety_budget.overrides_used = 1
    /\ disk = save_state(overrides, canary_signals, safety_budget, now)

Severity(verdict) ==
    CASE verdict = "SAFE" -> 0
      [] verdict = "SUSPICIOUS" -> 1
      [] verdict = "PHISHING" -> 2

\* C17: apply_calibration_restriction returns SUSPICIOUS for PHISHING under
\* degraded or unknown, and the input verdict under healthy and for SAFE and
\* SUSPICIOUS under any status; the result is never more severe than the
\* input, and restricting it again with the same status changes nothing.
C17_RestrictionTable ==
    [][result'.op = "apply_calibration_restriction" =>
          \A v \in Verdicts, s \in CalibrationStatuses :
             apply_calibration_restriction(v, s) =>
                LET r == result'.ret[1] IN
                /\ (v = "PHISHING" /\ s \in {"degraded", "unknown"}) =>
                      r = "SUSPICIOUS"
                /\ (s = "healthy" \/ v \in {"SAFE", "SUSPICIOUS"}) => r = v
                /\ Severity(r) <= Severity(v)
                /\ restricted_verdict(r, s) = r]_vars

\* PHISHING passed through under healthy calibration, on a frozen engine
C17_Witness ==
    /\ result.op = "apply_calibration_restriction"
    /\ result.ret = Some("PHISHING")
    /\ safety_budget.is_frozen
    /\ Len(overrides) = 1

\* C18: get_calibration_policy_adjustment maps healthy to (0, no
\* restriction, no warning), degraded to (0.20, restrict, warn) and unknown
\* to (0.10, restrict, warn), whatever the engine's state, and changes none
\* of it.
C18_PolicyTable ==
    [][result'.op = "get_calibration_policy_adjustment" =>
          \A s \in CalibrationStatuses :
             get_calibration_policy_adjustment(s) =>
                LET a == result'.ret[1]
                    row == <<a.confidence_penalty, a.restrict_phishing,
                             a.require_warning>>
                IN
                /\ s = "healthy" => row = <<0, FALSE, FALSE>>
                /\ s = "degraded" => row = <<20, TRUE, TRUE>>
                /\ s = "unknown" => row = <<10, TRUE, TRUE>>
                /\ UNCHANGED <<now, overrides, canary_signals, safety_budget,
                               disk>>]_vars

\* the policy of degraded calibration, asked of a frozen engine
C18_Witness ==
    /\ result.op = "get_calibration_policy_adjustment"
    /\ result.ret[1].confidence_penalty = 20
    /\ result.ret[1].restrict_phishing
    /\ safety_budget.is_frozen
    /\ disk # None

\* C19: in every report of verify_policy_consistency should_fail_ci is true
\* exactly when the error list is non-empty and consistent is true exactly
\* when it is empty; warnings without errors leave should_fail_ci false.
C19_FailsCIIffErrors ==
    result.op = "verify_policy_consistency" =>
       LET report == result.ret[1] IN
       /\ report.should_fail_ci <=> Len(report.errors) > 0
       /\ report.consistent <=> Len(report.errors) = 0
       /\ (Len(report.errors) = 0 /\ Len(report.warnings) > 0) =>
             ~report.should_fail_ci

\* a report with a warning about the calibration status and no error
C19_Witness ==
    /\ result.op = "verify_policy_consistency"
    /\ result.ret[1].errors = <<>>
    /\ Has(result.ret[1].warnings, "Calibration status is not 'healthy'")
    /\ ~result.ret[1].should_fail_ci
    /\ result.ret[1].consistent

\* C20: verify_policy_consistency reports every finding: a missing manifest
\* is an error whatever the other files are, a missing snapshot is an error
\* also when the manifest is missing, a snapshot version different from the
\* manifest's is an error, and with a complete manifest and a matching
\* snapshot a missing calibration file gives a warning and no CI failure.
C20_AccumulatesFindings ==
    [][result'.op = "verify_policy_consistency" =>
          \A m \in Manifests, s \in Snapshots, c \in CalibrationMetrics :
             verify_policy_consistency(m, s, c) =>
                LET report == result'.ret[1] IN
                /\ m = None =>
                      /\ Has(report.errors,
                             "Manifest file missing: trusted_domains_manifest.json")
                      /\ report.should_fail_ci
                /\ s = None => Has(report.errors, "Snapshot file missing")
                /\ (m = None /\ s = None) => Len(report.errors) = 2
                /\ (m # None /\ s # None
                      /\ s[1]._manifest_version # m[1].version) =>
                      /\ Has(report.errors, "Version mismatch")
                      /\ report.should_fail_ci
                /\ (m # None /\ s # None /\ c = None
                      /\ ~Falsy(m[1].version) /\ ~Falsy(m[1].change_reason)
                      /\ s[1]._manifest_version = m[1].version) =>
                      /\ ~report.should_fail_ci
                      /\ Len(report.warnings) > 0]_vars

\* manifest, snapshot and calibration file all missing: two errors and a warning
C20_Witness ==
    /\ result.op = "verify_policy_consistency"
    /\ Has(result.ret[1].errors,
           "Manifest file missing: trusted_domains_manifest.json")
    /\ Has(result.ret[1].errors, "Snapshot file missing")
    /\ Has(result.ret[1].warnings, "Calibration metrics file missing")
    /\ result.ret[1].should_fail_ci

\* C21: promote_canary(domain, approver, ticket) succeeds exactly when
\* check_promotion_eligibility(domain) reports eligible; its record carries
\* the domain, the approver, the ticket and the domain's signal as it is at
\* the call; promote_canary and check_promotion_eligibility change no canary
\* signal, nor the ledger, nor the safety budget.
C21_PromotionReadOnly ==
    [][/\ result'.op = "promote_canary" =>
             \A d \in Domains, a \in Approvers, t \in LiftTickets :
                promote_canary(d, a, t) =>
                   /\ result'.outcome = "ok" <=> Eligibility(d).eligible
                   /\ result'.outcome # "ok" => result'.outcome = "ineligible"
                   /\ result'.outcome = "ok" =>
                         /\ result'.ret[1].domain = d
                         /\ result'.ret[1].approved_by = a
                         /\ result'.ret[1].review_ticket = t
                         /\ result'.ret[1].signal = Some(canary_signals[d])
                   /\ UNCHANGED <<canary_signals, overrides, safety_budget>>
       /\ result'.op = "check_promotion_eligibility" =>
             UNCHANGED <<canary_signals, overrides, safety_budget>>]_vars

\* a promotion after five SAFE results on the domain, whose signal is the
\* one the record carries
C21_Witness ==
    /\ result.op = "promote_canary"
    /\ result.outcome = "ok"
    /\ result.ret[1].signal[1].consecutive_passes = 5
    /\ result.ret[1].signal[1] = canary_signals[result.ret[1].domain]

\* C22: revoke_override with an id that no override of the ledger has fails
\* with the not-found error and changes nothing; with the id of an override
\* it sets that override's is_active to false, writes the state file, and
\* leaves the other overrides, the canary signals and the safety budget as
\* they were.
C22_RevokeOnlyThatOverride ==
    [][result'.op = "revoke_override" =>
          \A id \in 1..(Len(overrides) + 1) :
             revoke_override(id) =>
                IF \E i \in DOMAIN overrides : overrides[i].override_id = id
                THEN /\ result'.outcome = "ok"
                     /\ Len(overrides') = Len(overrides)
                     /\ \A i \in DOMAIN overrides :
                           overrides'[i] =
                              IF overrides[i].override_id = id
                              THEN [overrides[i] EXCEPT !.is_active = FALSE]
                              ELSE overrides[i]
                     /\ disk' = Some([overrides |-> overrides',
                                      canary_signals |-> canary_signals',
                                      safety_budget |-> safety_budget'])
                     /\ UNCHANGED <<canary_signals, safety_budget>>
                ELSE /\ result'.outcome = "not_found"
                     /\ UNCHANGED <<overrides, canary_signals, safety_budget,
                                    disk>>]_vars

\* the second of two active overrides revoked, the first still active
C22_Witness ==
    /\ result.op = "revoke_override"
    /\ result.outcome = "ok"
    /\ Len(overrides) = 2
    /\ overrides[1].is_active
    /\ ~overrides[2].is_active
    /\ disk = Some([overrides |-> overrides, canary_signals |-> canary_signals,
                    safety_budget |-> safety_budget])

\* the safety budget as it would be had the system not been frozen
Thawed(b) == [b EXCEPT !.is_frozen = FALSE, !.freeze_reason = None]

\* C23: while the system is frozen every operation but request_override and
\* lift_freeze does what it does when the system is not frozen, raises
\* nothing it would not raise then (revoke_override of an unknown id), and
\* leaves the system frozen.
C23_FrozenServesEverythingElse ==
    [][(safety_budget.is_frozen
          /\ result'.op \notin {"request_override", "lift_freeze"}) =>
          /\ safety_budget'.is_frozen
          /\ \/ result'.outcome = "ok"
             \/ /\ result'.op = "revoke_override"
                /\ result'.outcome = "not_found"
                /\ \A i \in DOMAIN overrides :
                      overrides[i].override_id # result'.ret[1][2]
          /\ \A d \in {"example.com"}, v \in {"SAFE", "PHISHING"}, n \in {20} :
                record_canary_result(d, v, n) =>
                   /\ canary_signals'[d] = Recorded(SignalOf(d), v, n, now)
                   /\ result'.ret = Some(canary_signals'[d])
                   /\ Counters(safety_budget') =
                         Counters(CanaryBudget(Thawed(safety_budget), v))
          /\ \A e \in EventTypes :
                record_safety_event(e) =>
                   Counters(safety_budget') =
                      Counters(BudgetsChecked(Counted(Thawed(safety_budget), e)))
          /\ \A id \in DOMAIN overrides :
                revoke_override(id) => ~overrides'[id].is_active
          /\ get_active_overrides =>
                result'.ret = Some(Active(overrides, now))
          /\ get_safety_status =>
                /\ result'.ret[1].is_frozen
                /\ result'.ret[1].freeze_reason = safety_budget.freeze_reason
                /\ result'.ret[1].active_overrides = Len(Active(overrides, now))
          /\ \A d \in {"example.com"} :
                check_promotion_eligibility(d) =>
                   result'.ret = Some(Eligibility(d))
          /\ \A v \in Verdicts, s \in {"healthy", "degraded"} :
                apply_calibration_restriction(v, s) =>
                   result'.ret = Some(restricted_verdict(v, s))]_vars

\* a PHISHING canary result recorded after the freeze of a
\* suspicious_on_trusted event
C23_Witness ==
    /\ result.op = "record_canary_result"
    /\ result.outcome = "ok"
    /\ result.ret[1].last_verdict = Some("PHISHING")
    /\ safety_budget.is_frozen
    /\ safety_budget.freeze_reason =
          Some("CRITICAL: SUSPICIOUS verdict on trusted domain")
    /\ safety_budget.canary_failures = 1

\* C24: a request_override with valid authority made while the system is
\* not frozen and overrides_used is over the limit of 3 fails with the
\* budget error; afterwards the system is frozen for the reason "Override
\* budget exceeded", the state file holds the freeze, and the ledger and
\* overrides_used are as they were.
C24_BudgetRejectionFreezes ==
    [][(~safety_budget.is_frozen /\ safety_budget.overrides_used > 3) =>
          \A req \in BudgetRequests :
             (request_override(req) /\ WellFormed(req)) =>
                /\ result'.outcome = "budget"
                /\ safety_budget'.is_frozen
                /\ safety_budget'.freeze_reason = Some("Override budget exceeded")
                /\ disk' # None
                /\ disk'[1].safety_budget = safety_budget'
                /\ disk'[1].overrides = overrides
                /\ overrides' = overrides
                /\ safety_budget'.overrides_used = safety_budget.overrides_used]_vars

\* the fifth request of a window, rejected after four were granted
C24_Witness ==
    /\ result.op = "request_override"
    /\ result.outcome = "budget"
    /\ safety_budget.is_frozen
    /\ safety_budget.freeze_reason = Some("Override budget exceeded")
    /\ safety_budget.overrides_used = 4
    /\ Len(overrides) = 4
    /\ disk # None
    /\ disk[1].safety_budget.is_frozen

\* the positions of the ledger whose override is flagged active and has no
\* expiration or one the clock has not passed
Live == {i \in DOMAIN overrides :
           /\ overrides[i].is_active
           /\ \/ overrides[i].expires_at = None
              \/ now <= overrides[i].expires_at[1]}

\* C25: get_active_overrides returns, in the order of the ledger, exactly
\* the overrides that are flagged active and have no expiration or one not
\* yet passed; after it no override of the ledger is both active and
\* expired, the state file holds the ledger with the demotions, and no
\* inactive override is returned.
C25_ActiveOverrides ==
    [][(result'.op = "get_active_overrides" /\ get_active_overrides) =>
          LET active == result'.ret[1] IN
          /\ Len(active) = Cardinality(Live)
          /\ \A k \in 1..Len(active) :
                \E i \in Live :
                   /\ Cardinality({j \in Live : j <= i}) = k
                   /\ active[k] = overrides[i]
          /\ \A k \in 1..Len(active) : active[k].is_active
          /\ Len(overrides') = Len(overrides)
          /\ \A i \in DOMAIN overrides' :
                /\ ~(overrides'[i].is_active /\ is_expired(overrides'[i], now'))
                /\ overrides'[i].is_active <=> i \in Live
          /\ disk' # None
          /\ disk'[1].overrides = overrides']_vars

\* a read that returns the permanent override and demotes the expired
\* testing override issued before it
C25_Witness ==
    /\ result.op = "get_active_overrides"
    /\ Len(overrides) = 2
    /\ Len(result.ret[1]) = 1
    /\ result.ret[1][1] = overrides[2]
    /\ overrides[1].override_type = "testing"
    /\ ~overrides[1].is_active
    /\ is_expired(overrides[1], now)
    /\ disk[1].overrides = overrides

\* an override with its is_active flag put aside
Unflagged(o) == [o EXCEPT !.is_active = TRUE]

\* C26: no operation removes an override from the ledger or changes a field
\* of it other than is_active; is_active goes from true to false only, and
\* that of a permanent override only in revoke_override.
C26_LedgerOnlyDeactivates ==
    [][/\ Len(overrides') >= Len(overrides)
       /\ \A i \in DOMAIN overrides :
             /\ Unflagged(overrides'[i]) = Unflagged(overrides[i])
             /\ overrides'[i].is_active => overrides[i].is_active
             /\ (overrides[i].override_type = "permanent"
                   /\ overrides[i].is_active /\ ~overrides'[i].is_active) =>
                   result'.op = "revoke_override"]_vars

\* a freeze lifted over a ledger holding a revoked permanent override and an
\* expired, demoted testing override
C26_Witness ==
    /\ result.op = "lift_freeze"
    /\ result.outcome = "lifted"
    /\ Len(overrides) = 2
    /\ overrides[1].override_type = "permanent"
    /\ ~overrides[1].is_active
    /\ overrides[2].override_type = "testing"
    /\ ~overrides[2].is_active
    /\ is_expired(overrides[2], now)

\* C27: lift_freeze on a system that is not frozen changes nothing: the
\* counters, window_start, the flag, the reason, the ledger, the canary
\* signals and the state file are as before.
C27_LiftWhenNotFrozenIsNoOp ==
    [][~safety_budget.is_frozen =>
          \A by \in Operators, res \in Resolutions, t \in LiftTickets :
             lift_freeze(by, res, t) =>
                UNCHANGED <<safety_budget, overrides, canary_signals, disk,
                            now>>]_vars

\* lift_freeze refused with one override of the window used
C27_Witness ==
    /\ result.op = "lift_freeze"
    /\ result.outcome = "not_frozen"
    /\ ~safety_budget.is_frozen
    /\ safety_budget.overrides_used = 1
    /\ Len(overrides) = 1
    /\ disk # None
    /\ disk[1].safety_budget = safety_budget

C29_NoAppendWhileFrozen ==
    [][\A t \in Threads : request_append(t) => ~safety_budget.is_frozen]_vars

\* C30: whenever no thread is inside an operation, a state file that has
\* been written holds the in-memory ledger, canary signals and safety
\* budget.
C30_FileEqualsMemoryAtRest ==
    ((\A t \in Threads : At(t, "idle")) /\ disk # None) =>
       disk = save_state(overrides, canary_signals, safety_budget, now)

MutatingOperations ==
    {"request_override", "revoke_override", "get_active_overrides",
     "record_canary_result", "record_safety_event", "lift_freeze"}

\* C31: with one thread, a mutating operation that completes leaves a state
\* file; an engine restarted from the state file has the ledger, the canary
\* signals and the safety budget that were in memory; and an engine
\* restarted frozen rejects every request_override as frozen.
C31_RestartRestoresMemory ==
    [][/\ (result'.op \in MutatingOperations
             /\ result'.outcome \in {"ok", "lifted"}) => disk' # None
       /\ (restart /\ disk # None) =>
             /\ result'.outcome = "ok"
             /\ UNCHANGED <<overrides, canary_signals, safety_budget>>
       /\ (result.op = "init" /\ safety_budget.is_frozen) =>
             \A req \in MainRequests :
                request_override(req) => result'.outcome = "frozen"]_vars

\* an engine restarted from a file that holds an override and the freeze
C31_Witness ==
    /\ result.op = "init"
    /\ result.outcome = "ok"
    /\ disk # None
    /\ disk[1].safety_budget = safety_budget
    /\ disk[1].overrides = overrides
    /\ Len(overrides) = 1
    /\ safety_budget.is_frozen
    /\ safety_budget.freeze_reason =
          Some("CRITICAL: SUSPICIOUS verdict on trusted domain")

\* C32: every canary signal has test_runs = passes + failures and
\* 0 <= consecutive_passes <= passes, and consecutive_passes counts the
\* results since the domain's last PHISHING result: it is test_runs while
\* there is no failure, 0 right after a PHISHING result, and one more after
\* every other result.
C32_SignalCounts ==
    /\ [](\A d \in DOMAIN canary_signals :
            LET s == canary_signals[d] IN
            /\ s.test_runs = s.passes + s.failures
            /\ 0 <= s.consecutive_passes
            /\ s.consecutive_passes <= s.passes
            /\ s.failures = 0 => s.consecutive_passes = s.test_runs
            /\ s.last_verdict = Some("PHISHING") => s.consecutive_passes = 0)
    /\ [][\A d \in DOMAIN canary_signals' :
            LET old == SignalOf(d)
                new == canary_signals'[d]
            IN
            \/ new = old
            \/ /\ new.test_runs = old.test_runs + 1
               /\ new.last_verdict = Some("PHISHING")
               /\ new.consecutive_passes = 0
            \/ /\ new.test_runs = old.test_runs + 1
               /\ new.last_verdict # Some("PHISHING")
               /\ new.consecutive_passes = old.consecutive_passes + 1]_vars

\* SAFE, PHISHING, SAFE recorded for a domain: a streak of one of two passes
C32_Witness ==
    /\ result.op = "record_canary_result"
    /\ \E d \in DOMAIN canary_signals :
          /\ result.ret = Some(canary_signals[d])
          /\ canary_signals[d].test_runs = 3
          /\ canary_signals[d].passes = 2
          /\ canary_signals[d].failures = 1
          /\ canary_signals[d].consecutive_passes = 1

\* C33: a domain with a PHISHING result on record is not eligible for
\* promotion, and stays so: a PHISHING result leaves its failures above 0,
\* no step lowers the failures of a domain or drops its signal, whatever
\* passes follow and whether a freeze is lifted, and neither the report nor
\* promote_canary accepts a domain with a failure.
C33_FailureBarsPromotion ==
    /\ [](/\ \A d \in DOMAIN canary_signals :
               canary_signals[d].failures > 0 =>
                  /\ ~Eligibility(d).eligible
                  /\ ~is_promotable(canary_signals[d])
          /\ (result.op = "check_promotion_eligibility"
                /\ result.ret[1].eligible) =>
                result.ret[1].signal[1].failures = 0
          /\ (result.op = "promote_canary" /\ result.outcome = "ok") =>
                result.ret[1].signal[1].failures = 0)
    /\ [][\A d \in DOMAIN canary_signals' :
            LET old == SignalOf(d)
                new == canary_signals'[d]
            IN
            /\ DOMAIN canary_signals \subseteq DOMAIN canary_signals'
            /\ new.failures >= old.failures
            /\ (new.test_runs > old.test_runs
                  /\ new.last_verdict = Some("PHISHING")) =>
                  new.failures > 0]_vars

\* one PHISHING result, then five SAFE results of 100 samples and a freeze
\* lifted: the budget's canary_failures is back to 0, the domain's failure
\* is not, and the report refuses for the pass rate
C33_Witness ==
    /\ result.op = "check_promotion_eligibility"
    /\ ~result.ret[1].eligible
    /\ result.ret[1].reason = "Pass rate < 100% required"
    /\ result.ret[1].signal[1].failures = 1
    /\ result.ret[1].signal[1].consecutive_passes = 5
    /\ safety_budget.canary_failures = 0
    /\ ~safety_budget.is_frozen

\* C34: is_frozen is true exactly when freeze_reason is set, and a reason
\* set is not the empty string; a frozen system stays frozen in every step
\* but a lift_freeze, its reason at most replaced by another; a lift_freeze
\* of a frozen system clears the flag and the reason together.
C34_FrozenIffReason ==
    /\ [](/\ safety_budget.is_frozen <=> safety_budget.freeze_reason # None
          /\ safety_budget.freeze_reason # None =>
                safety_budget.freeze_reason[1] # "")
    /\ [][/\ (safety_budget.is_frozen /\ result'.op # "lift_freeze") =>
                /\ safety_budget'.is_frozen
                /\ safety_budget'.freeze_reason # None
          /\ (safety_budget.is_frozen /\ result'.op = "lift_freeze") =>
                /\ result'.outcome = "lifted"
                /\ ~safety_budget'.is_frozen
                /\ safety_budget'.freeze_reason = None]_vars

\* a second suspicious_on_trusted event recorded while the system is
\* frozen, with the override counter over its limit: still frozen
C34_Witness ==
    /\ result.op = "record_safety_event"
    /\ safety_budget.is_frozen
    /\ safety_budget.overrides_used = 4
    /\ safety_budget.suspicious_on_trusted = 2
    /\ safety_budget.freeze_reason =
          Some("CRITICAL: SUSPICIOUS verdict on trusted domain")

====
